---- MODULE Spec2Model ----
(***************************************************************************)
(* FindMyCat location-update pipeline.                                     *)
(*                                                                         *)
(*   Ingest  : backend/dist/server-postgres.js + backend/src/postgres.ts   *)
(*             (POST /api/locations/update, /api/locations/batch-update,   *)
(*             PostgresDatabase.registerDevice/getLatestLocations/         *)
(*             addLocation, io.emit('location_update'))                    *)
(*   Source  : LocationUploadFilter.swift + MainViewModel.swift            *)
(*   Viewer  : frontend App.tsx (MainApp) + CatMap.tsx                     *)
(*   Channel : frontend services/websocket.ts + the server's socket.io     *)
(*   History : the history fetch effect of MainApp                         *)
(*   Viewport: MapBoundsUpdater and InteractionLock of CatMap.tsx          *)
(*   Status  : GET /api/devices/status                                     *)
(***************************************************************************)
EXTENDS Integers, Sequences, FiniteSets, TLC

(***************************************************************************)
(* Bounds of the model.                                                    *)
(***************************************************************************)
NumHandlers == 2   \* concurrent ingest request handlers
MaxTs == 2         \* distinct sample instants 1..MaxTs
MaxRequests == 2   \* ingest requests accepted in one run
MaxBatch == 2      \* entries in one batch-update body
MaxFailures == 1   \* database statements that fail in one run
MaxDeltas == 3     \* samples the server commits while a viewer is watching
MaxSnapshots == 2  \* snapshot requests a viewer makes
MaxDrops == 2      \* times the live channel goes down in one run
MaxRefetches == 3  \* runs of the history effect in one run
MaxRenders == 5    \* events the map component handles in one run
MaxStatusRows == 3  \* rows of table locations when the device status is read
MaxSqliteRows == 4  \* rows of the SQLite table locations in one run
MaxSends == 3       \* sendLocationUpdate calls in one run
MaxTimers == 6      \* Timer.scheduledTimer calls in one run
MaxPairRequests == 2  \* pair requests outstanding at once

VARIABLES
  \* ---- ingest server (PostgreSQL) ----
  locationsTable,  \* rows of table locations
  devicesTable,    \* rows of table devices
  now,             \* the database's CURRENT_TIMESTAMP
  handler,         \* per request handler: position and locals
  emitted,         \* io.emit('location_update', ...) calls, in order
  respLog,         \* res.json / res.status(..).json calls, in order
  reqCount,        \* requests received so far
  failures,        \* database errors raised so far
  \* ---- LocationUploadFilter (source) ----
  lastUploadedLocations,   \* [String: CLLocation] cache
  lastUploadedTimestamps,  \* [String: Date] cache
  defaultsLocations,       \* UserDefaults "LastUploadedLocation_<id>"
  defaultsTimestamps,      \* UserDefaults "LastUploadedTimestamp_<id>"
  time,                    \* Date(), in seconds
  decision,                \* the shouldUpload call just made, if any
  \* ---- MainViewModel (source) ----
  cache,                   \* the Find My cache file: device id -> reported sample
  inflight,                \* URLSession data tasks whose completion has not run
  polled,                  \* the filter's verdicts in the poll just made, if any
  outcome,                 \* per device, how the last completed send ended
  \* ---- viewer (MainApp) and what the server holds for it ----
  stored,                  \* the samples the server has committed
  socketEvents,            \* socket.io events on their way to the viewer, in order
  initialRead,             \* rows read for request_initial_data, not yet emitted
  httpResponses,           \* REST responses on their way to the viewer
  locations,               \* MainApp state: the history list
  delivered,               \* samples handed to the location_update handler
  budget,                  \* ingests and snapshot requests made so far
  \* ---- live channel (WebSocketService, socket.io) ----
  isConnected,             \* MainApp state isConnected / socket.connected
  session,                 \* the socket.io session of the viewer, 0 before the first
  reconnectAttempts,       \* failed connection attempts in a row
  wire,                    \* events the server wrote to the viewer's session, in order
  emitLog,                 \* io.emit('location_update') calls and the sessions reached
  receipts,                \* events the viewer's handlers have run for, in order
  drops,                   \* times the channel went down
  deviceStatuses,          \* MainApp state deviceStatuses
  \* ---- history fetch effect (MainApp) ----
  historyReloadKey,        \* MainApp state historyReloadKey
  fetches,                 \* getAllLocationHistory calls that have not settled
  loadingHistoryRef,       \* loadingHistoryRef.current
  error,                   \* MainApp state error
  \* ---- viewport (MapBoundsUpdater, InteractionLock) ----
  autoFitLockedRef,        \* autoFitLockedRef.current
  lastBoundsRef,           \* lastBoundsRef.current
  lastFitKeyRef,           \* lastFitKeyRef.current, after the effects of the mount
  fitKey,                  \* prop fitKey
  filteredLocations,       \* prop locations of MapBoundsUpdater
  fitTargets,              \* prop fitTargets
  zoom,                    \* map.getZoom()
  mapActions,              \* setView / fitBounds calls, in order
  renders,                 \* events handled so far
  interacted,              \* the user has dragged or zoomed the map
  \* ---- device status endpoint ----
  statusDevices,           \* rows of table devices: device id -> last_seen
  statusLocations,         \* rows of table locations
  statusClock,             \* new Date().getTime(), in ms
  statusResponse,          \* the last res.json(deviceStatuses), if any
  \* ---- SQLite-backed server ----
  sqliteLocations,         \* rows of the SQLite table locations, in insertion order
  \* ---- viewer startup (MainApp mount effects) ----
  mounted,                 \* the mount effects of MainApp have run
  isLoading,               \* MainApp state isLoading
  pendingResults,          \* results on their way to the viewer: REST responses, socket events
  \* ---- polling timer (MainViewModel) ----
  authToken,               \* authToken is set (from the saved config, or by pair)
  isPaired,                \* MainViewModel.isPaired
  pollInterval,            \* MainViewModel.pollInterval, in seconds
  timer,                   \* MainViewModel.timer: the Timer it refers to, if any
  scheduledTimers,         \* Timers that are scheduled on the run loop
  timersCreated,           \* Timer.scheduledTimer calls made so far
  pairRequests,            \* pair requests whose completion handler has not run
  \* ---- sends in their order (MainViewModel.sendLocationUpdate) ----
  sends,                   \* data tasks whose completion handler has not run
  sendCount,               \* sendLocationUpdate calls made so far
  recordedSend             \* per device, the send whose acknowledgement was recorded last

ingestVars == <<locationsTable, devicesTable, now, handler, emitted, respLog,
                reqCount, failures>>

filterVars == <<lastUploadedLocations, lastUploadedTimestamps, defaultsLocations,
                defaultsTimestamps, time, decision>>

sourceVars == <<cache, inflight, polled, outcome>>

viewerVars == <<stored, socketEvents, initialRead, httpResponses, locations, delivered,
                budget>>

channelVars == <<isConnected, session, reconnectAttempts, wire, emitLog, receipts, drops,
                 deviceStatuses>>

historyVars == <<historyReloadKey, fetches, loadingHistoryRef, error>>

viewportVars == <<autoFitLockedRef, lastBoundsRef, lastFitKeyRef, fitKey, filteredLocations,
                  fitTargets, zoom, mapActions, renders, interacted>>

statusVars == <<statusDevices, statusLocations, statusClock, statusResponse>>

sqliteVars == <<sqliteLocations>>

startupVars == <<mounted, isLoading, pendingResults>>

timerVars == <<authToken, isPaired, pollInterval, timer, scheduledTimers, timersCreated,
               pairRequests>>

uploadVars == <<sends, sendCount, recordedSend>>

vars == <<ingestVars, filterVars, sourceVars, viewerVars, channelVars, historyVars,
          viewportVars, statusVars, sqliteVars, startupVars, timerVars, uploadVars>>

notIngestVars == <<filterVars, sourceVars, viewerVars, channelVars, historyVars,
                   viewportVars, statusVars, sqliteVars, startupVars, timerVars,
                   uploadVars>>
notFilterVars == <<ingestVars, sourceVars, viewerVars, channelVars, historyVars,
                   viewportVars, statusVars, sqliteVars, startupVars, timerVars,
                   uploadVars>>
notSourceVars == <<ingestVars, decision, viewerVars, channelVars, historyVars,
                   viewportVars, statusVars, sqliteVars, startupVars, timerVars,
                   uploadVars>>
notViewerVars == <<ingestVars, filterVars, sourceVars, channelVars, historyVars,
                   viewportVars, statusVars, sqliteVars, startupVars, timerVars,
                   uploadVars>>
\* what the live channel leaves alone: it writes stored, locations, budget and error
notChannelVars == <<ingestVars, filterVars, sourceVars, socketEvents, initialRead,
                    httpResponses, delivered, historyReloadKey, fetches,
                    loadingHistoryRef, viewportVars, statusVars, sqliteVars, startupVars,
                    timerVars, uploadVars>>
\* what the history effect leaves alone: it writes locations and budget
notHistoryVars == <<ingestVars, filterVars, sourceVars, stored, socketEvents, initialRead,
                    httpResponses, delivered, channelVars, viewportVars, statusVars,
                    sqliteVars, startupVars, timerVars, uploadVars>>
notViewportVars == <<ingestVars, filterVars, sourceVars, viewerVars, channelVars,
                     historyVars, statusVars, sqliteVars, startupVars, timerVars, uploadVars>>
notStatusVars == <<ingestVars, filterVars, sourceVars, viewerVars, channelVars,
                   historyVars, viewportVars, sqliteVars, startupVars, timerVars, uploadVars>>
notSqliteVars == <<ingestVars, filterVars, sourceVars, viewerVars, channelVars,
                   historyVars, viewportVars, statusVars, startupVars, timerVars, uploadVars>>
\* what the startup of the viewer leaves alone: it writes stored, locations,
\* isConnected, error and historyReloadKey
notStartupVars == <<ingestVars, filterVars, sourceVars, socketEvents, initialRead,
                    httpResponses, delivered, budget, session, reconnectAttempts, wire,
                    emitLog, receipts, drops, deviceStatuses, fetches, loadingHistoryRef,
                    viewportVars, statusVars, sqliteVars, timerVars, uploadVars>>
notTimerVars == <<ingestVars, filterVars, sourceVars, viewerVars, channelVars,
                  historyVars, viewportVars, statusVars, sqliteVars, startupVars,
                  uploadVars>>
\* what the sends leave alone: they write the four dictionaries of the filter
notUploadVars == <<ingestVars, time, decision, sourceVars, viewerVars, channelVars,
                   historyVars, viewportVars, statusVars, sqliteVars, startupVars,
                   timerVars>>

(***************************************************************************)
(* JavaScript values that cross the HTTP / database boundary.  Every value *)
(* carries its runtime type: a JSON string, a JSON number, undefined, or a *)
(* Date object.  n is the instant (for timestamps), the number, or the     *)
(* identifier index (for device ids).                                      *)
(***************************************************************************)
Str(n) == [type |-> "string", n |-> n]
Num(n) == [type |-> "number", n |-> n]
DateObj(n) == [type |-> "Date", n |-> n]
Undefined == [type |-> "undefined", n |-> 0]

\* !v : undefined (a missing JSON field) is falsy
Falsy(v) == v.type = "undefined"

\* a !== b : values of different types are unequal; two strings compare by
\* content; two distinct objects (Dates) are never identical
StrictNotEqual(a, b) ==
  IF a.type # b.type THEN TRUE
  ELSE IF a.type = "Date" THEN TRUE
  ELSE a.n # b.n

Handlers == 1..NumHandlers
Devices == {1}
Timestamps == 1..MaxTs
Coords == {0, 1}
DemoUser == 0
Users == {DemoUser}

ValidUpdates ==
  [deviceId : {Str(d) : d \in Devices}, latitude : {Num(c) : c \in Coords},
   longitude : {Num(0)}, timestamp : {Str(t) : t \in Timestamps}]

InvalidUpdates ==
  { [deviceId |-> Undefined, latitude |-> Num(0), longitude |-> Num(0), timestamp |-> Str(1)],
    [deviceId |-> Str(1), latitude |-> Str(0), longitude |-> Num(0), timestamp |-> Str(1)],
    [deviceId |-> Str(1), latitude |-> Num(0), longitude |-> Str(0), timestamp |-> Str(1)],
    [deviceId |-> Str(1), latitude |-> Num(0), longitude |-> Num(0), timestamp |-> Undefined] }

Updates == ValidUpdates \cup InvalidUpdates

\* entries of batch bodies: the valid ones at latitude 0 and one invalid one
BatchUpdates ==
  {u \in ValidUpdates : u.latitude = Num(0)}
    \cup {[deviceId |-> Str(1), latitude |-> Num(0), longitude |-> Num(0), timestamp |-> Undefined]}

Bodies(maxLen) == UNION { [1..k -> BatchUpdates] : k \in 0..maxLen }

\* a required-field test that forgets the timestamp
IsValidWithoutTimestamp(u) ==
  ~( Falsy(u.deviceId)
     \/ u.latitude.type # "number"
     \/ u.longitude.type # "number" )

\* the required-field test of both ingest routes (negated)
IsValidUpdate(u) ==
  ~( Falsy(u.deviceId)
     \/ u.latitude.type # "number"
     \/ u.longitude.type # "number"
     \/ Falsy(u.timestamp) )

(***************************************************************************)
(* PostgreSQL tables and statements.                                       *)
(***************************************************************************)
\* a TIMESTAMP WITH TIME ZONE column stores the instant an input string denotes
ToTimestamptz(v) == v.n

\* node-postgres hands a timestamptz column back as a Date object
FromTimestamptz(t) == DateObj(t)

\* result.rows[k] of SELECT * / RETURNING * on locations
LocationRecord(r) ==
  [id |-> r.id, device_id |-> r.device_id, user_id |-> r.user_id,
   latitude |-> r.latitude, longitude |-> r.longitude,
   timestamp |-> FromTimestamptz(r.timestamp)]

\* INSERT INTO devices .. ON CONFLICT (device_id, user_id) DO UPDATE SET last_seen = CURRENT_TIMESTAMP
registerDevice(devs, userId, deviceId, ts) ==
  {d \in devs : ~(d.device_id = deviceId /\ d.user_id = userId)}
    \cup {[device_id |-> deviceId, user_id |-> userId, last_seen |-> ts]}

Greatest(a, b) == IF a >= b THEN a ELSE b

\* UPDATE devices SET last_seen = GREATEST(last_seen, $3) WHERE user_id = $1 AND device_id = $2
UpdateLastSeen(devs, userId, deviceId, ts) ==
  { IF d.device_id = deviceId /\ d.user_id = userId
      THEN [d EXCEPT !.last_seen = Greatest(d.last_seen, ts)]
      ELSE d : d \in devs }

ConflictRows(rows, userId, deviceId, ts) ==
  {r \in rows : r.device_id = deviceId /\ r.user_id = userId /\ r.timestamp = ts}

NewRow(rows, userId, deviceId, loc) ==
  [id |-> Cardinality(rows) + 1, device_id |-> deviceId, user_id |-> userId,
   latitude |-> loc.latitude.n, longitude |-> loc.longitude.n,
   timestamp |-> ToTimestamptz(loc.timestamp)]

\* a plain INSERT, with no unique key to conflict on
InsertNoConflict(rows, userId, deviceId, loc) ==
  rows \cup {NewRow(rows, userId, deviceId, loc)}

\* INSERT INTO locations .. ON CONFLICT (device_id, user_id, timestamp) DO UPDATE SET ..
InsertLocation(rows, userId, deviceId, loc) ==
  LET hit == ConflictRows(rows, userId, deviceId, ToTimestamptz(loc.timestamp))
  IN IF hit = {}
       THEN rows \cup {NewRow(rows, userId, deviceId, loc)}
       ELSE { IF r \in hit
                THEN [r EXCEPT !.latitude = loc.latitude.n, !.longitude = loc.longitude.n]
                ELSE r : r \in rows }

\* the row RETURNING * yields for the statement above
ReturnedRow(rows, userId, deviceId, loc) ==
  LET after == InsertLocation(rows, userId, deviceId, loc)
      hit == ConflictRows(after, userId, deviceId, ToTimestamptz(loc.timestamp))
  IN LocationRecord(CHOOSE r \in hit : \A q \in hit : q.id <= r.id)

\* SELECT * FROM locations WHERE user_id = $1 AND device_id = $2 ORDER BY timestamp DESC LIMIT 1
getLatestLocations(rows, userId, deviceId) ==
  LET mine == {r \in rows : r.user_id = userId /\ r.device_id = deviceId}
  IN IF mine = {} THEN <<>>
     ELSE <<LocationRecord(CHOOSE r \in mine :
                \A q \in mine : q.timestamp < r.timestamp
                                  \/ (q.timestamp = r.timestamp /\ q.id <= r.id))>>


(***************************************************************************)
(* Request handlers.  A handler yields to the event loop at every await;   *)
(* the code between two awaits runs as one step.                           *)
(***************************************************************************)
IdleHandler ==
  [pc |-> "idle", req |-> 0, kind |-> "none", userId |-> DemoUser, body |-> <<>>, i |-> 0,
   existingLocations |-> <<>>, savedLocation |-> <<>>, results |-> <<>>,
   errors |-> <<>>, overlapped |-> FALSE]

Active(h) == handler[h].pc # "idle"

\* a request is served by the lowest idle handler slot
FreeSlot(h) == ~Active(h) /\ \A g \in Handlers : g < h => Active(g)

\* the entry the handler is working on
Update(hr) == hr.body[hr.i]

CountNew(results) == Cardinality({k \in 1..Len(results) : results[k]})

\* one res.json(...) / res.status(...).json(...) call
Reply(h, hr, status, isNew) ==
  [h |-> h, req |-> hr.req, kind |-> hr.kind, userId |-> hr.userId, body |-> hr.body,
   status |-> status, isNew |-> isNew,
   processed |-> Len(hr.results), newLocations |-> CountNew(hr.results),
   errors |-> hr.errors, overlapped |-> hr.overlapped]

Respond(h, hr, status, isNew) ==
  /\ respLog' = Append(respLog, Reply(h, hr, status, isNew))
  /\ handler' = [handler EXCEPT ![h] = IdleHandler]

\* for (const update of locationUpdates): the next entry that passes validation
RECURSIVE NextValid(_, _)
NextValid(body, i) ==
  IF i > Len(body) THEN i
  ELSE IF IsValidUpdate(body[i]) THEN i
  ELSE NextValid(body, i + 1)

\* batch route: the loop leaves entry hr.i; after the last entry it responds
NextEntry(h, hr) ==
  LET j == NextValid(hr.body, hr.i + 1)
  IN IF j > Len(hr.body)
       THEN Respond(h, hr, 200, FALSE)
       ELSE /\ handler' = [handler EXCEPT ![h] =
                 [hr EXCEPT !.i = j, !.pc = "registerDevice",
                            !.existingLocations = <<>>, !.savedLocation = <<>>]]
            /\ UNCHANGED respLog

\* a request arrives at idle handler h; requests already running overlap it
Accept(h, kind, userId, body) ==
  [g \in Handlers |->
     IF g = h
       THEN [IdleHandler EXCEPT !.pc = "registerDevice", !.req = reqCount + 1, !.kind = kind,
                                !.userId = userId, !.body = body, !.i = 1,
                                !.overlapped = \E o \in Handlers \ {h} : Active(o)]
       ELSE IF Active(g) THEN [handler[g] EXCEPT !.overlapped = TRUE]
       ELSE handler[g]]

\* POST /api/locations/update: validation up to the first await
ReceiveUpdate(h, userId, u) ==
  /\ FreeSlot(h)
  /\ reqCount < MaxRequests
  /\ reqCount' = reqCount + 1
  /\ LET acc == Accept(h, "single", userId, <<u>>)
     IN IF IsValidUpdate(u)
          THEN /\ handler' = acc
               /\ UNCHANGED respLog
          ELSE /\ respLog' = Append(respLog, Reply(h, acc[h], 400, FALSE))
               /\ handler' = [acc EXCEPT ![h] = IdleHandler]
  /\ UNCHANGED <<locationsTable, devicesTable, now, emitted, failures>>
  /\ UNCHANGED notIngestVars

\* POST /api/locations/batch-update with an array body
ReceiveBatch(h, userId, body) ==
  /\ FreeSlot(h)
  /\ reqCount < MaxRequests
  /\ reqCount' = reqCount + 1
  /\ LET acc == Accept(h, "batch", userId, body)
         j == NextValid(body, 1)
     IN IF j > Len(body)
          THEN /\ respLog' = Append(respLog, Reply(h, acc[h], 200, FALSE))
               /\ handler' = [acc EXCEPT ![h] = IdleHandler]
          ELSE /\ handler' = [acc EXCEPT ![h].i = j]
               /\ UNCHANGED respLog
  /\ UNCHANGED <<locationsTable, devicesTable, now, emitted, failures>>
  /\ UNCHANGED notIngestVars

\* POST /api/locations/batch-update whose body is not an array
ReceiveBatchNotArray(h, userId) ==
  /\ FreeSlot(h)
  /\ reqCount < MaxRequests
  /\ reqCount' = reqCount + 1
  /\ LET acc == Accept(h, "batch", userId, <<>>)
     IN /\ respLog' = Append(respLog, Reply(h, acc[h], 400, FALSE))
        /\ handler' = [acc EXCEPT ![h] = IdleHandler]
  /\ UNCHANGED <<locationsTable, devicesTable, now, emitted, failures>>
  /\ UNCHANGED notIngestVars

\* await db.registerDevice(userId, deviceId, deviceName)
RegisterDevice(h) ==
  LET hr == handler[h] IN
  /\ hr.pc = "registerDevice"
  /\ devicesTable' = registerDevice(devicesTable, hr.userId, Update(hr).deviceId.n, now + 1)
  /\ now' = now + 1
  /\ handler' = [handler EXCEPT ![h].pc = "getLatestLocations"]
  /\ UNCHANGED <<locationsTable, emitted, respLog, reqCount, failures>>
  /\ UNCHANGED notIngestVars

\* isNewLocation = !existingLocation || existingLocation.timestamp !== update.timestamp
IsNewLocation(existingLocations, u) ==
  \/ Len(existingLocations) = 0
  \/ StrictNotEqual(existingLocations[1].timestamp, u.timestamp)

\* await db.getLatestLocations(userId, deviceId), then the duplicate decision
GetLatestLocations(h) ==
  LET hr == handler[h]
      rows == getLatestLocations(locationsTable, hr.userId, Update(hr).deviceId.n)
  IN
  /\ hr.pc = "getLatestLocations"
  /\ IF IsNewLocation(rows, Update(hr))
       THEN /\ handler' = [handler EXCEPT ![h].pc = "addLocation", ![h].existingLocations = rows]
            /\ UNCHANGED respLog
       ELSE IF hr.kind = "single"
         THEN Respond(h, hr, 200, FALSE)
         ELSE NextEntry(h, [hr EXCEPT !.results = Append(hr.results, FALSE)])
  /\ UNCHANGED <<locationsTable, devicesTable, now, emitted, reqCount, failures>>
  /\ UNCHANGED notIngestVars

\* what other sessions see of the devices table while the transaction that
\* ran UPDATE devices is still open: its write is not visible before COMMIT
UncommittedDevices(devs, userId, deviceId, ts) == devs

\* addLocation up to COMMIT: BEGIN, UPDATE devices, INSERT INTO locations.
\* The statements' writes stay private to the transaction
AddLocation(h) ==
  LET hr == handler[h] IN
  /\ hr.pc = "addLocation"
  /\ devicesTable' = UncommittedDevices(devicesTable, hr.userId, hr.body[hr.i].deviceId.n,
                                         ToTimestamptz(hr.body[hr.i].timestamp))
  /\ handler' = [handler EXCEPT ![h].pc = "COMMIT"]
  /\ UNCHANGED <<locationsTable, now, emitted, respLog, reqCount, failures>>
  /\ UNCHANGED notIngestVars

\* the transaction's writes as COMMIT publishes them
CommittedDevices(hr) ==
  UpdateLastSeen(devicesTable, hr.userId, Update(hr).deviceId.n,
                 ToTimestamptz(Update(hr).timestamp))

\* COMMIT that publishes nothing of the INSERT
LostLocations(hr) == locationsTable

CommittedLocations(hr) ==
  InsertLocation(locationsTable, hr.userId, Update(hr).deviceId.n, Update(hr))

\* COMMIT; addLocation returns result.rows[0]
Commit(h) ==
  LET hr == handler[h] IN
  /\ hr.pc = "COMMIT"
  /\ devicesTable' = CommittedDevices(hr)
  /\ locationsTable' = CommittedLocations(hr)
  /\ handler' = [handler EXCEPT ![h].pc = "emit",
        ![h].savedLocation =
           <<ReturnedRow(locationsTable, hr.userId, Update(hr).deviceId.n, Update(hr))>>]
  /\ UNCHANGED <<now, emitted, respLog, reqCount, failures>>
  /\ UNCHANGED notIngestVars

\* the handler positions at which addLocation has returned savedLocation
EmitPoint == {"emit"}

\* io.emit('location_update', savedLocation), then the response (single) or
\* results.push and the next loop iteration (batch)
Emit(h) ==
  LET hr == handler[h] IN
  /\ hr.pc \in EmitPoint
  /\ emitted' = Append(emitted, [location |-> hr.savedLocation[1], req |-> hr.req, i |-> hr.i])
  /\ IF hr.kind = "single"
       THEN Respond(h, hr, 200, TRUE)
       ELSE NextEntry(h, [hr EXCEPT !.results = Append(hr.results, TRUE)])
  /\ UNCHANGED <<locationsTable, devicesTable, now, reqCount, failures>>
  /\ UNCHANGED notIngestVars

DbStatements == {"registerDevice", "getLatestLocations", "addLocation", "COMMIT"}

\* an awaited database call rejects (inside addLocation: ROLLBACK, rethrow).
\* single route: the outer catch answers 500; batch route: the per-entry
\* catch logs the error and the loop goes on
DbError(h) ==
  LET hr == handler[h] IN
  /\ hr.pc \in DbStatements
  /\ failures < MaxFailures
  /\ failures' = failures + 1
  /\ LET caught == [hr EXCEPT !.errors = Append(hr.errors, [i |-> hr.i, pc |-> hr.pc])]
     IN IF hr.kind = "single"
          THEN Respond(h, caught, 500, FALSE)
          ELSE NextEntry(h, caught)
  /\ UNCHANGED <<locationsTable, devicesTable, now, emitted, reqCount>>
  /\ UNCHANGED notIngestVars

NowInit == MaxTs

IngestInit ==
  /\ locationsTable = {}
  /\ devicesTable = {}
  /\ now = NowInit
  /\ handler = [h \in Handlers |-> IdleHandler]
  /\ emitted = <<>>
  /\ respLog = <<>>
  /\ reqCount = 0
  /\ failures = 0

IngestNext ==
  \/ \E h \in Handlers, userId \in Users, u \in Updates : ReceiveUpdate(h, userId, u)
  \/ \E h \in Handlers, userId \in Users, body \in Bodies(MaxBatch) :
        ReceiveBatch(h, userId, body)
  \/ \E h \in Handlers, userId \in Users : ReceiveBatchNotArray(h, userId)
  \/ \E h \in Handlers : RegisterDevice(h)
  \/ \E h \in Handlers : GetLatestLocations(h)
  \/ \E h \in Handlers : AddLocation(h)
  \/ \E h \in Handlers : Commit(h)
  \/ \E h \in Handlers : Emit(h)
  \/ \E h \in Handlers : DbError(h)



(***************************************************************************)
(* LocationUploadFilter.  Positions are metres along a line, so that       *)
(* CLLocation.distance(from:) is the absolute difference; times are        *)
(* seconds.                                                                *)
(***************************************************************************)
minDistanceThreshold == 20
minTimeInterval == 5
maxAccuracyThreshold == 150
heartbeatInterval == 600

Positions == {0, 19, 20, 40, 41}
Accuracies == {-1, 5, 15, 90, 150, 151}
Instants == {0, 4, 5, 604, 605}
FilterDevices == {1}

CLLocation(pos, acc, ts) ==
  [coordinate |-> pos, horizontalAccuracy |-> acc, timestamp |-> ts]

\* location.distance(from: lastLocation)
Distance(a, b) ==
  IF a.coordinate >= b.coordinate THEN a.coordinate - b.coordinate
  ELSE b.coordinate - a.coordinate

\* dictionary[key] = value and dictionary.removeValue(forKey:)
Put(dict, key, value) == (key :> value) @@ dict
Remove(dict, key) == [k \in DOMAIN dict \ {key} |-> dict[k]]
EmptyDict == [k \in {} |-> 0]

\* loadPersistedStateIfNeeded(for:), the timestamps cache afterwards
LoadedTimestamps(memLoc, memTs, defTs, deviceId) ==
  IF deviceId \in DOMAIN memLoc /\ deviceId \in DOMAIN memTs THEN memTs
  ELSE IF deviceId \in DOMAIN defTs THEN Put(memTs, deviceId, defTs[deviceId])
  ELSE memTs

\* loadPersistedStateIfNeeded(for:), the locations cache afterwards
LoadedLocations(memLoc, memTs, defLoc, deviceId) ==
  IF deviceId \in DOMAIN memLoc /\ deviceId \in DOMAIN memTs THEN memLoc
  ELSE IF deviceId \in DOMAIN defLoc THEN Put(memLoc, deviceId, defLoc[deviceId])
  ELSE memLoc

\* an accuracy test that also accepts an improvement of exactly 40%
AccuracyImprovedOrEqual(lastAcc, newAcc) == (lastAcc - newAcc) * 10 >= 4 * lastAcc

\* (last - new) / last > accuracyImprovementThreshold (0.4), in integers
AccuracyImproved(lastAcc, newAcc) == (lastAcc - newAcc) * 10 > 4 * lastAcc

\* a filter without the rate limit
NeverTooSoon(timeSinceLastUpload) == FALSE

\* timeSinceLastUpload < Self.minTimeInterval
TooSoon(timeSinceLastUpload) == timeSinceLastUpload < minTimeInterval

\* a poor-accuracy test that uses the normal distance threshold
MovedNormally(distance) == distance > minDistanceThreshold

\* distance > Self.minDistanceThreshold * 2, the test for a poor-accuracy fix
MovedSignificantly(distance) == distance > minDistanceThreshold * 2

\* shouldUpload with the poor-accuracy test applied before the cold-start rule
shouldUploadNoColdStart(locs, tss, deviceId, location, currentTime) ==
  IF location.horizontalAccuracy > maxAccuracyThreshold
    THEN deviceId \in DOMAIN locs
         /\ Distance(location, locs[deviceId]) > minDistanceThreshold * 2
    ELSE TRUE

\* shouldUpload(deviceId:location:) once the persisted state is loaded
shouldUpload(locs, tss, deviceId, location, currentTime) ==
  IF location.horizontalAccuracy > maxAccuracyThreshold
    THEN IF deviceId \notin DOMAIN locs
           THEN TRUE
           ELSE MovedSignificantly(Distance(location, locs[deviceId]))
  ELSE IF deviceId \notin DOMAIN locs \/ deviceId \notin DOMAIN tss
    THEN TRUE
  ELSE LET lastLocation == locs[deviceId]
           timeSinceLastUpload == currentTime - tss[deviceId]
       IN IF TooSoon(timeSinceLastUpload) THEN FALSE
          ELSE IF Distance(location, lastLocation) >= minDistanceThreshold THEN TRUE
          ELSE IF /\ location.horizontalAccuracy > 0
                  /\ lastLocation.horizontalAccuracy > 0
                  /\ AccuracyImproved(lastLocation.horizontalAccuracy,
                                      location.horizontalAccuracy)
                 THEN TRUE
          ELSE IF timeSinceLastUpload >= heartbeatInterval THEN TRUE
          ELSE FALSE

NoDecision ==
  [deviceId |-> 0, location |-> CLLocation(0, 0, 0), currentTime |-> 0,
   lastLocation |-> <<>>, lastTimestamp |-> <<>>, result |-> FALSE]

\* a call of shouldUpload(deviceId:location:) at the current time
ShouldUploadCall(deviceId, location) ==
  LET locs == LoadedLocations(lastUploadedLocations, lastUploadedTimestamps,
                              defaultsLocations, deviceId)
      tss == LoadedTimestamps(lastUploadedLocations, lastUploadedTimestamps,
                              defaultsTimestamps, deviceId)
  IN /\ lastUploadedLocations' = locs
     /\ lastUploadedTimestamps' = tss
     /\ decision' =
          [deviceId |-> deviceId, location |-> location, currentTime |-> time,
           lastLocation |-> IF deviceId \in DOMAIN locs THEN <<locs[deviceId]>> ELSE <<>>,
           lastTimestamp |-> IF deviceId \in DOMAIN tss THEN <<tss[deviceId]>> ELSE <<>>,
           result |-> shouldUpload(locs, tss, deviceId, location, time)]
     /\ UNCHANGED <<defaultsLocations, defaultsTimestamps, time>>
     /\ UNCHANGED notFilterVars

\* markAsUploaded(deviceId:latitude:longitude:timestamp:accuracy:), with persistState
MarkAsUploadedCall(deviceId, pos, acc, timestamp) ==
  /\ lastUploadedLocations' = Put(lastUploadedLocations, deviceId, CLLocation(pos, acc, timestamp))
  /\ lastUploadedTimestamps' = Put(lastUploadedTimestamps, deviceId, timestamp)
  /\ defaultsLocations' = Put(defaultsLocations, deviceId, CLLocation(pos, acc, timestamp))
  /\ defaultsTimestamps' = Put(defaultsTimestamps, deviceId, timestamp)
  /\ decision' = NoDecision
  /\ UNCHANGED time
  /\ UNCHANGED notFilterVars

\* clearPersistedState()
ClearPersistedState ==
  /\ DOMAIN defaultsLocations # {}
  /\ lastUploadedLocations' = EmptyDict
  /\ lastUploadedTimestamps' = EmptyDict
  /\ defaultsLocations' = EmptyDict
  /\ defaultsTimestamps' = EmptyDict
  /\ decision' = NoDecision
  /\ UNCHANGED time
  /\ UNCHANGED notFilterVars

\* clearPersistedState(for:)
ClearPersistedStateFor(deviceId) ==
  /\ deviceId \in DOMAIN defaultsLocations
  /\ lastUploadedLocations' = Remove(lastUploadedLocations, deviceId)
  /\ lastUploadedTimestamps' = Remove(lastUploadedTimestamps, deviceId)
  /\ defaultsLocations' = Remove(defaultsLocations, deviceId)
  /\ defaultsTimestamps' = Remove(defaultsTimestamps, deviceId)
  /\ decision' = NoDecision
  /\ UNCHANGED time
  /\ UNCHANGED notFilterVars

\* the process restarts: LocationUploadFilter.init(), the caches start empty
NewFilter ==
  /\ DOMAIN lastUploadedLocations # {}
  /\ lastUploadedLocations' = EmptyDict
  /\ lastUploadedTimestamps' = EmptyDict
  /\ decision' = NoDecision
  /\ UNCHANGED <<defaultsLocations, defaultsTimestamps, time>>
  /\ UNCHANGED notFilterVars

\* the wall clock moves on
ClockAdvance(t) ==
  /\ t > time
  /\ time' = t
  /\ decision' = NoDecision
  /\ UNCHANGED <<lastUploadedLocations, lastUploadedTimestamps, defaultsLocations,
                 defaultsTimestamps>>
  /\ UNCHANGED notFilterVars

FilterInit ==
  /\ lastUploadedLocations = EmptyDict
  /\ lastUploadedTimestamps = EmptyDict
  /\ defaultsLocations = EmptyDict
  /\ defaultsTimestamps = EmptyDict
  /\ time = 0
  /\ decision = NoDecision

FilterNext ==
  \/ \E d \in FilterDevices, pos \in Positions, acc \in Accuracies :
        ShouldUploadCall(d, CLLocation(pos, acc, time))
  \/ \E d \in FilterDevices, pos \in Positions, acc \in Accuracies :
        MarkAsUploadedCall(d, pos, acc, time)
  \/ ClearPersistedState
  \/ \E d \in FilterDevices : ClearPersistedStateFor(d)
  \/ NewFilter
  \/ \E t \in Instants : ClockAdvance(t)

SourceInit ==
  /\ cache = EmptyDict
  /\ inflight = {}
  /\ polled = EmptyDict
  /\ outcome = EmptyDict

ViewerInit ==
  /\ stored = {}
  /\ socketEvents = <<>>
  /\ initialRead = <<>>
  /\ httpResponses = {}
  /\ locations = <<>>
  /\ delivered = {}
  /\ budget = [deltas |-> 0, snapshots |-> 0]

ChannelInit ==
  /\ isConnected = FALSE
  /\ session = 0
  /\ reconnectAttempts = 0
  /\ wire = <<>>
  /\ emitLog = <<>>
  /\ receipts = <<>>
  /\ drops = 0
  /\ deviceStatuses = <<>>

HistoryInit ==
  /\ historyReloadKey = 0
  /\ fetches = {}
  /\ loadingHistoryRef = FALSE
  /\ error = <<>>

ViewportInit ==
  /\ autoFitLockedRef = FALSE
  /\ lastBoundsRef = <<>>
  /\ lastFitKeyRef = <<0>>
  /\ fitKey = 0
  /\ filteredLocations = <<>>
  /\ fitTargets = <<>>
  /\ zoom = 14
  /\ mapActions = <<>>
  /\ renders = 0
  /\ interacted = FALSE

StatusInit ==
  /\ statusDevices = <<>>
  /\ statusLocations = {}
  /\ statusClock = 0
  /\ statusResponse = <<>>

SqliteInit == sqliteLocations = <<>>

StartupInit ==
  /\ mounted = FALSE
  /\ isLoading = TRUE
  /\ pendingResults = {}

TimerInit ==
  /\ authToken = FALSE
  /\ isPaired = FALSE
  /\ pollInterval = 10
  /\ timer = <<>>
  /\ scheduledTimers = {}
  /\ timersCreated = 0
  /\ pairRequests = 0

UploadInit ==
  /\ sends = {}
  /\ sendCount = 0
  /\ recordedSend = EmptyDict

AllInit ==
  /\ IngestInit /\ FilterInit /\ SourceInit /\ ViewerInit
  /\ ChannelInit /\ HistoryInit /\ ViewportInit /\ StatusInit
  /\ SqliteInit /\ StartupInit /\ TimerInit /\ UploadInit

SpecFilter == AllInit /\ [][FilterNext]_vars

SpecIngest == AllInit /\ [][IngestNext]_vars

(***************************************************************************)
(* MainViewModel: polling the Find My cache, sending through the filter,   *)
(* and the completion handlers of the sends.  poll() and the completion    *)
(* handlers all run on the main queue, so each is one step.                *)
(***************************************************************************)
MaxClock == heartbeatInterval
SourceDevices == {1, 2}
SourcePositions == {0, 20}
PollIntervals == {300, 600}
FindMyAccuracy == 15

\* DeviceLocation as read by fetchLocations()
DeviceLocation(id, pos) == [id |-> id, latitude |-> pos]

\* a data task of sendLocationUpdate; overtaken: a send for the same device
\* was acknowledged while this one was in flight
Request(device, overtaken) == [device |-> device, overtaken |-> overtaken]

\* the caches after loadPersistedStateIfNeeded(for:) has run for each device
AllLoadedLocations(ds) ==
  [d \in DOMAIN lastUploadedLocations
         \cup {e \in ds : e \in DOMAIN LoadedLocations(lastUploadedLocations,
                                 lastUploadedTimestamps, defaultsLocations, e)} |->
     IF d \in ds
       THEN LoadedLocations(lastUploadedLocations, lastUploadedTimestamps,
                            defaultsLocations, d)[d]
       ELSE lastUploadedLocations[d]]

AllLoadedTimestamps(ds) ==
  [d \in DOMAIN lastUploadedTimestamps
         \cup {e \in ds : e \in DOMAIN LoadedTimestamps(lastUploadedLocations,
                                 lastUploadedTimestamps, defaultsTimestamps, e)} |->
     IF d \in ds
       THEN LoadedTimestamps(lastUploadedLocations, lastUploadedTimestamps,
                             defaultsTimestamps, d)[d]
       ELSE lastUploadedTimestamps[d]]

\* the verdict of uploadFilter.shouldUpload(...) in sendLocations for one device
Verdict(locs, tss, device) ==
  shouldUpload(locs, tss, device.id,
               CLLocation(device.latitude, FindMyAccuracy, time), time)

\* what sendLocations puts in flight
Sent(locs, tss) ==
  {Request(cache[d], FALSE) : d \in {e \in DOMAIN cache : Verdict(locs, tss, cache[e])}}

\* the Find My cache file changes: a device is reported at a position
SourceReports(d, pos) ==
  /\ cache' = Put(cache, d, DeviceLocation(d, pos))
  /\ d \in DOMAIN cache => cache[d] # DeviceLocation(d, pos)
  /\ polled' = EmptyDict
  /\ UNCHANGED <<inflight, outcome>>
  /\ UNCHANGED <<lastUploadedLocations, lastUploadedTimestamps, defaultsLocations,
                 defaultsTimestamps, time>>
  /\ UNCHANGED notSourceVars

\* poll() -> fetchLocationsAndSend() -> sendLocations(locations)
Poll ==
  LET locs == AllLoadedLocations(DOMAIN cache)
      tss == AllLoadedTimestamps(DOMAIN cache)
  IN /\ DOMAIN cache # {}
     /\ lastUploadedLocations' = locs
     /\ lastUploadedTimestamps' = tss
     /\ inflight' = inflight \cup Sent(locs, tss)
     /\ polled' = [d \in DOMAIN cache |-> Verdict(locs, tss, cache[d])]
     /\ UNCHANGED <<cache, outcome>>
     /\ UNCHANGED <<defaultsLocations, defaultsTimestamps, time>>
     /\ UNCHANGED notSourceVars

\* the other sends of the same device that are still in flight are overtaken
Overtake(reqs, id) ==
  {IF r.device.id = id THEN Request(r.device, TRUE) ELSE r : r \in reqs}

\* a completion handler that marks every reported device as uploaded
AcknowledgedEveryDevice(dict, device, value) ==
  [d \in DOMAIN dict \cup DOMAIN cache |-> value]

\* the filter dictionaries after the completion handler saw a 2xx status
Acknowledged(dict, device, value) == Put(dict, device.id, value)

\* a failing completion handler that calls markAsUploaded all the same
MarkedAnyway(dict, device, value) == Put(dict, device.id, value)

\* the filter dictionaries after the completion handler saw anything else
NotAcknowledged(dict, device, value) == dict

\* completion handler: (200...299).contains(status)
Ack2xx(r) ==
  /\ r \in inflight
  /\ inflight' = Overtake(inflight \ {r}, r.device.id)
  /\ lastUploadedLocations' =
       Acknowledged(lastUploadedLocations, r.device,
                    CLLocation(r.device.latitude, FindMyAccuracy, time))
  /\ lastUploadedTimestamps' = Acknowledged(lastUploadedTimestamps, r.device, time)
  /\ defaultsLocations' =
       Acknowledged(defaultsLocations, r.device,
                    CLLocation(r.device.latitude, FindMyAccuracy, time))
  /\ defaultsTimestamps' = Acknowledged(defaultsTimestamps, r.device, time)
  /\ outcome' = Put(outcome, r.device.id, [device |-> r.device, status |-> "2xx"])
  /\ polled' = EmptyDict
  /\ UNCHANGED <<cache, time>>
  /\ UNCHANGED notSourceVars

\* a completion handler that returns without marking; they differ in the log line
Failed(r) ==
  /\ r \in inflight
  /\ inflight' = inflight \ {r}
  /\ lastUploadedLocations' =
       NotAcknowledged(lastUploadedLocations, r.device,
                       CLLocation(r.device.latitude, FindMyAccuracy, time))
  /\ lastUploadedTimestamps' = NotAcknowledged(lastUploadedTimestamps, r.device, time)
  /\ defaultsLocations' =
       NotAcknowledged(defaultsLocations, r.device,
                       CLLocation(r.device.latitude, FindMyAccuracy, time))
  /\ defaultsTimestamps' = NotAcknowledged(defaultsTimestamps, r.device, time)
  /\ outcome' = IF r.overtaken THEN outcome
                ELSE Put(outcome, r.device.id, [device |-> r.device, status |-> "failed"])
  /\ polled' = EmptyDict
  /\ UNCHANGED <<cache, time>>
  /\ UNCHANGED notSourceVars

\* completion handler: error != nil
SendError(r) == Failed(r)

\* completion handler: response is not an HTTPURLResponse
NoHTTPResponse(r) == Failed(r)

\* completion handler: status outside 200...299
Rejected(r) == Failed(r)

\* the app is quit and started again: a new LocationUploadFilter, no data tasks
Relaunch ==
  /\ DOMAIN lastUploadedLocations # {} \/ inflight # {}
  /\ lastUploadedLocations' = EmptyDict
  /\ lastUploadedTimestamps' = EmptyDict
  /\ inflight' = {}
  /\ polled' = EmptyDict
  /\ UNCHANGED <<cache, outcome>>
  /\ UNCHANGED <<defaultsLocations, defaultsTimestamps, time>>
  /\ UNCHANGED notSourceVars

\* times are kept within MaxClock by moving the epoch: a time more than
\* MaxClock before now becomes 0, which is still heartbeatInterval or more ago
Rebase(t, shift) == IF t >= shift THEN t - shift ELSE 0
RebaseLocation(l, shift) == [l EXCEPT !.timestamp = Rebase(l.timestamp, shift)]

\* the wall clock moves on by one polling interval
Tick(dt) ==
  LET shift == IF time + dt > MaxClock THEN time + dt - MaxClock ELSE 0
  IN /\ time' = time + dt - shift
     /\ lastUploadedTimestamps' =
          [d \in DOMAIN lastUploadedTimestamps |-> Rebase(lastUploadedTimestamps[d], shift)]
     /\ defaultsTimestamps' =
          [d \in DOMAIN defaultsTimestamps |-> Rebase(defaultsTimestamps[d], shift)]
     /\ lastUploadedLocations' =
          [d \in DOMAIN lastUploadedLocations |->
             RebaseLocation(lastUploadedLocations[d], shift)]
     /\ defaultsLocations' =
          [d \in DOMAIN defaultsLocations |-> RebaseLocation(defaultsLocations[d], shift)]
     /\ polled' = EmptyDict
     /\ UNCHANGED <<cache, inflight, outcome>>
     /\ UNCHANGED notSourceVars

Requests == {Request(DeviceLocation(d, pos), o) :
               d \in SourceDevices, pos \in SourcePositions, o \in BOOLEAN}

SourceNext ==
  \/ \E d \in SourceDevices, pos \in SourcePositions : SourceReports(d, pos)
  \/ Poll
  \/ \E r \in Requests : Ack2xx(r)
  \/ \E r \in Requests : SendError(r)
  \/ \E r \in Requests : NoHTTPResponse(r)
  \/ \E r \in Requests : Rejected(r)
  \/ Relaunch
  \/ \E dt \in PollIntervals : Tick(dt)

SpecSource == AllInit /\ [][SourceNext]_vars

\* the same steps when the Find My cache only ever reports one device
TrackedDevice == CHOOSE d \in SourceDevices : \A e \in SourceDevices : d <= e

OneDeviceNext ==
  \/ \E pos \in SourcePositions : SourceReports(TrackedDevice, pos)
  \/ Poll
  \/ \E r \in Requests : Ack2xx(r)
  \/ \E r \in Requests : SendError(r)
  \/ \E r \in Requests : NoHTTPResponse(r)
  \/ \E r \in Requests : Rejected(r)
  \/ Relaunch
  \/ \E dt \in PollIntervals : Tick(dt)

(***************************************************************************)
(* The viewer: MainApp keeps the list `locations`; it is replaced by every *)
(* snapshot (initial_locations, GET latest, GET history) and extended by   *)
(* every location_update.  The server side is reduced to what the viewer   *)
(* sees of it: the committed samples, the events it emits and the reads    *)
(* behind its snapshot responses.                                          *)
(***************************************************************************)
ViewerDevices == {1}
ViewerStamps == {1, 2, 3}

\* a Location as the viewer receives it: JSON carries the timestamp as a string
Location(deviceId, ts) == [deviceId |-> deviceId, latitude |-> Num(0), timestamp |-> Str(ts)]

\* new Date(loc.timestamp)
NewDate(v) == v.n

RECURSIVE OrderByTimestampDesc(_)
\* ORDER BY timestamp DESC
OrderByTimestampDesc(rows) ==
  IF rows = {} THEN <<>>
  ELSE LET first == CHOOSE r \in rows :
                      \A q \in rows : NewDate(q.timestamp) <= NewDate(r.timestamp)
       IN <<first>> \o OrderByTimestampDesc(rows \ {first})

\* GET /api/locations/history: getLocationHistory(userId, undefined, limit)
HistoryRows(rows) == OrderByTimestampDesc(rows)

\* getLatestLocations(userId): DISTINCT ON (device_id) ... ORDER BY device_id, timestamp DESC
LatestRows(rows) ==
  OrderByTimestampDesc(
    {r \in rows : \A q \in rows :
       q.deviceId = r.deviceId => NewDate(q.timestamp) <= NewDate(r.timestamp)})

\* the key (deviceId, timestamp) of a sample
SampleKey(loc) == <<loc.deviceId, NewDate(loc.timestamp)>>

\* the server commits a sample and emits location_update to the connected viewer
ServerIngest(d, ts) ==
  /\ budget.deltas < MaxDeltas
  /\ budget' = [budget EXCEPT !.deltas = @ + 1]
  /\ stored' = stored \cup {Location(d, ts)}
  /\ socketEvents' = Append(socketEvents,
                            [event |-> "location_update", data |-> <<Location(d, ts)>>])
  /\ UNCHANGED <<initialRead, httpResponses, locations, delivered>>
  /\ UNCHANGED notViewerVars

\* the socket (re)connects, the viewer emits request_initial_data, the server reads
RequestInitialData ==
  /\ budget.snapshots < MaxSnapshots
  /\ initialRead = <<>>
  /\ budget' = [budget EXCEPT !.snapshots = @ + 1]
  /\ initialRead' = <<LatestRows(stored)>>
  /\ UNCHANGED <<stored, socketEvents, httpResponses, locations, delivered>>
  /\ UNCHANGED notViewerVars

\* the server's read resolves: socket.emit('initial_locations', latestLocations)
EmitInitialLocations ==
  /\ initialRead # <<>>
  /\ socketEvents' = Append(socketEvents,
                            [event |-> "initial_locations", data |-> initialRead[1]])
  /\ initialRead' = <<>>
  /\ UNCHANGED <<stored, httpResponses, locations, delivered, budget>>
  /\ UNCHANGED notViewerVars

\* loadInitialData: GET /api/locations/latest is answered from the rows read now
LoadInitialData ==
  /\ budget.snapshots < MaxSnapshots
  /\ \A res \in httpResponses : res.request # "latest"
  /\ budget' = [budget EXCEPT !.snapshots = @ + 1]
  /\ httpResponses' = httpResponses \cup {[request |-> "latest", data |-> LatestRows(stored)]}
  /\ UNCHANGED <<stored, socketEvents, initialRead, locations, delivered>>
  /\ UNCHANGED notViewerVars

\* the history effect runs (mount, or handleRefresh): the previous fetch is
\* aborted and GET /api/locations/history is answered from the rows read now
FetchHistory ==
  /\ budget.snapshots < MaxSnapshots
  /\ budget' = [budget EXCEPT !.snapshots = @ + 1]
  /\ httpResponses' = {res \in httpResponses : res.request # "history"}
                        \cup {[request |-> "history", data |-> HistoryRows(stored)]}
  /\ UNCHANGED <<stored, socketEvents, initialRead, locations, delivered>>
  /\ UNCHANGED notViewerVars

\* setLocations(prev => [...prev, normalized])
AppendLocation(prev, normalized) == Append(prev, normalized)

\* an insertion that is a no-op when the key is already in the list
AppendIfAbsent(prev, normalized) ==
  IF \E i \in 1..Len(prev) : SampleKey(prev[i]) = SampleKey(normalized)
    THEN prev ELSE Append(prev, normalized)

\* a snapshot patched into the list the viewer already holds
PatchLocations(prev, snapshot) == prev \o snapshot

\* setLocations(snapshot)
ReplaceLocations(prev, snapshot) == snapshot

\* socket.on('location_update') and socket.on('initial_locations')
DeliverEvent ==
  /\ socketEvents # <<>>
  /\ socketEvents' = Tail(socketEvents)
  /\ IF Head(socketEvents).event = "location_update"
       THEN /\ locations' = AppendLocation(locations, Head(socketEvents).data[1])
            /\ delivered' = delivered \cup {SampleKey(Head(socketEvents).data[1])}
       ELSE /\ locations' = ReplaceLocations(locations, Head(socketEvents).data)
            /\ UNCHANGED delivered
  /\ UNCHANGED <<stored, initialRead, httpResponses, budget>>
  /\ UNCHANGED notViewerVars

\* a REST response arrives: setLocations(latestLocations) or setLocations(history)
ApplyResponse(res) ==
  /\ res \in httpResponses
  /\ httpResponses' = httpResponses \ {res}
  /\ locations' = ReplaceLocations(locations, res.data)
  /\ UNCHANGED <<stored, socketEvents, initialRead, delivered, budget>>
  /\ UNCHANGED notViewerVars

\* new Date(loc.timestamp) > new Date(existing.timestamp), replaced by "always"
LastArrivalWins(loc, existing) == TRUE

\* new Date(loc.timestamp) > new Date(existing.timestamp)
NewerThan(loc, existing) == NewDate(loc.timestamp) > NewDate(existing.timestamp)

\* latestPerDevice.get(loc.deviceId): the position of the entry, 0 when absent
MapIndex(map, deviceId) ==
  IF \E i \in 1..Len(map) : map[i].deviceId = deviceId
    THEN CHOOSE i \in 1..Len(map) : map[i].deviceId = deviceId
    ELSE 0

\* one iteration of the forEach over the Map latestPerDevice
LatestStep(map, loc) ==
  LET i == MapIndex(map, loc.deviceId)
  IN IF i = 0 THEN Append(map, loc)
     ELSE IF NewerThan(loc, map[i]) THEN [map EXCEPT ![i] = loc]
     ELSE map

RECURSIVE LatestPerDevice(_)
\* Array.from(latestPerDevice.values()) after the forEach
LatestPerDevice(locs) ==
  IF locs = <<>> THEN <<>>
  ELSE LatestStep(LatestPerDevice(SubSeq(locs, 1, Len(locs) - 1)), locs[Len(locs)])

ViewerNext ==
  \/ \E d \in ViewerDevices, ts \in ViewerStamps : ServerIngest(d, ts)
  \/ RequestInitialData
  \/ EmitInitialLocations
  \/ LoadInitialData
  \/ FetchHistory
  \/ DeliverEvent
  \/ \E res \in httpResponses : ApplyResponse(res)

SpecViewer == AllInit /\ [][ViewerNext]_vars

(***************************************************************************)
(* The live channel: WebSocketService.connect, the socket handlers of      *)
(* MainApp, and the server's io.on('connection') / io.emit.  The viewer is *)
(* past its first load (isLoading is false), and its deviceStatuses start  *)
(* empty.  socket.io gives up after maxReconnectAttempts failed         *)
(* attempts in a row; there is no timer in the viewer that refetches.      *)
(***************************************************************************)
maxReconnectAttempts == 5

\* an emit that is queued for sessions yet to come
BroadcastBuffered(queue, connected, event) == Append(queue, event)

\* io.emit(event): written to the sockets connected now, kept for no one
Broadcast(queue, connected, event) == IF connected THEN Append(queue, event) ELSE queue

\* the server commits a sample and emits location_update
ChannelIngest(d, ts) ==
  /\ budget.deltas < MaxDeltas
  /\ Location(d, ts) \notin stored
  /\ budget' = [budget EXCEPT !.deltas = @ + 1]
  /\ stored' = stored \cup {Location(d, ts)}
  /\ wire' = Broadcast(wire, isConnected,
                       [event |-> "location_update", data |-> <<Location(d, ts)>>,
                        emit |-> Len(emitLog) + 1])
  /\ emitLog' = Append(emitLog, [sample |-> Location(d, ts), after |-> session,
                                  to |-> IF isConnected THEN {session} ELSE {}])
  /\ UNCHANGED <<locations, error, isConnected, session, reconnectAttempts, receipts, drops,
                 deviceStatuses>>
  /\ UNCHANGED notChannelVars

\* 'connect': reconnectAttempts = 0, emit request_initial_data, which the
\* server answers with socket.emit('initial_locations', latest);
\* MainApp: setIsConnected(true), setError(null)
Connect ==
  /\ ~isConnected
  /\ reconnectAttempts < maxReconnectAttempts
  /\ isConnected' = TRUE
  /\ session' = session + 1
  /\ reconnectAttempts' = 0
  /\ error' = <<>>
  /\ wire' = Append(wire, [event |-> "initial_locations", data |-> LatestRows(stored),
                           emit |-> 0])
  /\ UNCHANGED <<stored, locations, budget, emitLog, receipts, drops, deviceStatuses>>
  /\ UNCHANGED notChannelVars

\* 'connect_error': reconnectAttempts++; MainApp: setIsConnected(false), setError
ConnectError ==
  /\ ~isConnected
  /\ reconnectAttempts < maxReconnectAttempts
  /\ reconnectAttempts' = reconnectAttempts + 1
  /\ isConnected' = FALSE
  /\ error' = <<"Failed to connect to server">>
  /\ UNCHANGED <<stored, locations, budget, session, wire, emitLog, receipts, drops,
                 deviceStatuses>>
  /\ UNCHANGED notChannelVars

\* 'disconnect': setIsConnected(false); what was on its way to the session is lost
Disconnect ==
  /\ isConnected
  /\ drops < MaxDrops
  /\ drops' = drops + 1
  /\ isConnected' = FALSE
  /\ wire' = <<>>
  /\ UNCHANGED <<stored, locations, budget, error, session, reconnectAttempts, emitLog,
                 receipts, deviceStatuses>>
  /\ UNCHANGED notChannelVars

\* setDeviceStatuses(prevStatuses => ...) of the location_update handler
UpdateDeviceStatuses(prevStatuses, normalized) ==
  LET existingIndex == MapIndex(prevStatuses, normalized.deviceId)
      newStatus == [deviceId |-> normalized.deviceId, lastSeen |-> normalized.timestamp,
                    latitude |-> normalized.latitude, isOnline |-> TRUE]
  IN IF existingIndex > 0
       THEN [prevStatuses EXCEPT ![existingIndex] = newStatus]
       ELSE Append(prevStatuses, newStatus)

\* socket.on('initial_locations') and socket.on('location_update') of MainApp
Receive ==
  /\ isConnected
  /\ wire # <<>>
  /\ wire' = Tail(wire)
  /\ locations' = IF Head(wire).event = "location_update"
                    THEN AppendLocation(locations, Head(wire).data[1])
                    ELSE ReplaceLocations(locations, Head(wire).data)
  /\ receipts' = Append(receipts, [event |-> Head(wire).event, emit |-> Head(wire).emit,
                                    session |-> session, data |-> Head(wire).data])
  /\ deviceStatuses' = IF Head(wire).event = "location_update"
                         THEN UpdateDeviceStatuses(deviceStatuses, Head(wire).data[1])
                         ELSE deviceStatuses
  /\ UNCHANGED <<stored, budget, error, isConnected, session, reconnectAttempts, emitLog,
                 drops>>
  /\ UNCHANGED notChannelVars

ChannelNext ==
  \/ \E d \in ViewerDevices, ts \in ViewerStamps : ChannelIngest(d, ts)
  \/ Connect
  \/ ConnectError
  \/ Disconnect
  \/ Receive

SpecChannel == AllInit /\ [][ChannelNext]_vars

\* socket.io retries by itself and the handlers run when events arrive; a
\* retry that can succeed again and again does succeed
ChannelFairness == WF_vars(Receive) /\ SF_vars(Connect) /\ WF_vars(Connect \/ ConnectError)

SpecChannelFair == AllInit /\ [][ChannelNext]_vars /\ ChannelFairness

(***************************************************************************)
(* The history fetch effect of MainApp.  It runs at mount and after every  *)
(* setHistoryReloadKey (handleRefresh, the isLoading effect); React runs   *)
(* the cleanup of the previous run first.  The server reads the rows when  *)
(* the request is made.                                                     *)
(***************************************************************************)
\* a controller whose abort() has no effect
NoAbort(f) == f

\* controller.abort()
Abort(f) == [f EXCEPT !.aborted = TRUE]

\* setError(message)
OverwriteError(prev, message) == <<message>>

\* setError(prev => prev ?? message)
KeepError(prev, message) == IF prev = <<>> THEN <<message>> ELSE prev

\* cleanup of the previous run, then the effect body
HistoryEffect ==
  /\ historyReloadKey < MaxRefetches
  /\ historyReloadKey' = historyReloadKey + 1
  /\ LET cleaned == {Abort(f) : f \in fetches}
         flag == FALSE
     IN IF flag
          THEN /\ fetches' = cleaned
               /\ loadingHistoryRef' = flag
          ELSE /\ loadingHistoryRef' = TRUE
               /\ fetches' = {Abort(f) : f \in cleaned}
                               \cup {[key |-> historyReloadKey + 1, aborted |-> FALSE,
                                      data |-> HistoryRows(stored)]}
  /\ UNCHANGED <<locations, budget, error>>
  /\ UNCHANGED notHistoryVars

\* await getAllLocationHistory resolves: try and finally blocks of fetchHistory
HistoryResolves(f) ==
  /\ f \in fetches
  /\ fetches' = fetches \ {f}
  /\ IF ~f.aborted
       THEN /\ locations' = ReplaceLocations(locations, f.data)
            /\ error' = <<>>
            /\ loadingHistoryRef' = FALSE
       ELSE UNCHANGED <<locations, error, loadingHistoryRef>>
  /\ UNCHANGED <<historyReloadKey, budget>>
  /\ UNCHANGED notHistoryVars

\* await getAllLocationHistory rejects: catch and finally blocks of fetchHistory
HistoryRejects(f) ==
  /\ f \in fetches
  /\ fetches' = fetches \ {f}
  /\ IF ~f.aborted
       THEN /\ error' = KeepError(error,
                                  "History temporarily unavailable; showing latest only")
            /\ loadingHistoryRef' = FALSE
       ELSE UNCHANGED <<error, loadingHistoryRef>>
  /\ UNCHANGED <<locations, historyReloadKey, budget>>
  /\ UNCHANGED notHistoryVars

HistoryNext ==
  \/ HistoryEffect
  \/ \E f \in fetches : HistoryResolves(f)
  \/ \E f \in fetches : HistoryRejects(f)
  \/ \E d \in ViewerDevices, ts \in ViewerStamps : ServerIngest(d, ts)
  \/ DeliverEvent
  \/ ConnectError

SpecHistory == AllInit /\ [][HistoryNext]_vars

(***************************************************************************)
(* The viewport: MapBoundsUpdater and InteractionLock of CatMap.           *)
(* Coordinates are in units of 1e-7 degree.  The map is mounted with an    *)
(* empty list and fitKey 0, at zoom 14.  Leaflet fires 'zoomstart' for     *)
(* every change of zoom, a setView or fitBounds that changes it included.  *)
(***************************************************************************)
eps == 10

Zooms == {14, 19, 21}

Point(lat, lng) == [latitude |-> lat, longitude |-> lng]

\* the lists the map is given: one point, the same point moved by less than
\* eps, a shifted point, two points, the two with one moved by less than eps
LocationLists ==
  { <<>>,
    <<Point(0, 0)>>, <<Point(5, 0)>>, <<Point(20, 0)>>,
    <<Point(0, 0), Point(0, 20)>>, <<Point(5, 0), Point(0, 20)>> }

Smallest(S) == CHOOSE x \in S : \A y \in S : x <= y
Largest(S) == CHOOSE x \in S : \A y \in S : y <= x
Abs(x) == IF x < 0 THEN -x ELSE x

computeBounds(locs) ==
  LET lats == {locs[i].latitude : i \in 1..Len(locs)}
      lngs == {locs[i].longitude : i \in 1..Len(locs)}
  IN [minLat |-> Smallest(lats), maxLat |-> Largest(lats),
      minLng |-> Smallest(lngs), maxLng |-> Largest(lngs), count |-> Len(locs)]

hasMeaningfulChange(a, b) ==
  IF a = <<>> THEN TRUE
  ELSE IF a[1].count # b.count THEN TRUE
  ELSE \/ Abs(a[1].minLat - b.minLat) > eps
       \/ Abs(a[1].maxLat - b.maxLat) > eps
       \/ Abs(a[1].minLng - b.minLng) > eps
       \/ Abs(a[1].maxLng - b.maxLng) > eps

\* a fitKey that is never taken for the one already handled
NeverSameFitKey(key, last) == FALSE

\* fitKey === lastFitKeyRef.current
SameFitKey(key, last) == last = <<key>>

\* (fitTargets && fitTargets.length > 0) ? fitTargets : locations
FitList(targets, locs) == IF Len(targets) > 0 THEN targets ELSE locs

\* the refs and the map, as one value the effects of a render pass along
MapState ==
  [locked |-> autoFitLockedRef, lastBounds |-> lastBoundsRef, lastFitKey |-> lastFitKeyRef,
   zoom |-> zoom, actions |-> mapActions]

\* map.setView for one point, map.fitBounds (which settles at zoom z) for
\* several; a change of zoom fires 'zoomstart' and with it the lock handler
Fit(m, fitList, cause, key, z) ==
  LET targetZoom == IF m.zoom > 19 THEN m.zoom ELSE 19
      target == IF Len(fitList) = 1
                  THEN (IF targetZoom < 22 THEN targetZoom ELSE 22)
                  ELSE z
  IN [m EXCEPT !.zoom = target,
               !.locked = m.locked \/ target # m.zoom,
               !.actions = Append(m.actions,
                                  [cause |-> cause, fitKey |-> key,
                                   call |-> IF Len(fitList) = 1 THEN "setView"
                                            ELSE "fitBounds",
                                   bounds |-> computeBounds(fitList)])]

\* a data effect that forgets the last fitted bounds when the list is empty
DataEffectForgetting(m, fitList, key, z) ==
  IF Len(fitList) = 0 THEN [m EXCEPT !.lastBounds = <<>>]
  ELSE IF m.locked THEN m
  ELSE IF ~hasMeaningfulChange(m.lastBounds, computeBounds(fitList)) THEN m
  ELSE Fit([m EXCEPT !.lastBounds = <<computeBounds(fitList)>>], fitList, "data", key, z)

\* the effect on [locations, fitTargets]
DataEffect(m, fitList, key, z) ==
  IF Len(fitList) = 0 THEN m
  ELSE IF m.locked THEN m
  ELSE IF ~hasMeaningfulChange(m.lastBounds, computeBounds(fitList)) THEN m
  ELSE Fit([m EXCEPT !.lastBounds = <<computeBounds(fitList)>>], fitList, "data", key, z)

\* the effect on [fitKey, locations, fitTargets]
FitKeyEffect(m, fitList, key, z) ==
  IF SameFitKey(key, m.lastFitKey) THEN m
  ELSE IF Len(fitList) = 0 THEN [m EXCEPT !.lastFitKey = <<key>>]
  ELSE Fit([m EXCEPT !.lastFitKey = <<key>>], fitList, "fitKey", key, z)

\* the refs and the map after the effects of one render
AfterEffects(m) ==
  /\ autoFitLockedRef' = m.locked
  /\ lastBoundsRef' = m.lastBounds
  /\ lastFitKeyRef' = m.lastFitKey
  /\ zoom' = m.zoom
  /\ mapActions' = m.actions

\* setFilteredLocations(filtered): both effects run
DataArrives(list, z) ==
  /\ renders < MaxRenders
  /\ renders' = renders + 1
  /\ filteredLocations' = list
  /\ AfterEffects(FitKeyEffect(DataEffect(MapState, FitList(fitTargets, list), fitKey, z),
                          FitList(fitTargets, list), fitKey, z))
  /\ UNCHANGED <<fitKey, fitTargets, interacted>>
  /\ UNCHANGED notViewportVars

\* handleRefresh, or the isLoading effect: setFitKey(k => k + 1)
FitKeyIncrement(z) ==
  /\ renders < MaxRenders
  /\ renders' = renders + 1
  /\ fitKey' = fitKey + 1
  /\ AfterEffects(FitKeyEffect(MapState, FitList(fitTargets, filteredLocations), fitKey + 1, z))
  /\ UNCHANGED <<filteredLocations, fitTargets, interacted>>
  /\ UNCHANGED notViewportVars

\* HistoryBoard onSelect: setFocusedLocations([loc]), setFitKey(k => k + 1)
SelectLocation(i) ==
  /\ renders < MaxRenders
  /\ i \in 1..Len(filteredLocations)
  /\ renders' = renders + 1
  /\ fitTargets' = <<filteredLocations[i]>>
  /\ fitKey' = fitKey + 1
  /\ AfterEffects(FitKeyEffect(DataEffect(MapState, <<filteredLocations[i]>>, fitKey + 1, zoom),
                          <<filteredLocations[i]>>, fitKey + 1, zoom))
  /\ UNCHANGED <<filteredLocations, interacted>>
  /\ UNCHANGED notViewportVars

\* setTimeout(() => setFocusedLocations(null), 150)
ReleaseFocus(z) ==
  /\ renders < MaxRenders
  /\ fitTargets # <<>>
  /\ renders' = renders + 1
  /\ fitTargets' = <<>>
  /\ AfterEffects(FitKeyEffect(DataEffect(MapState, filteredLocations, fitKey, z),
                          filteredLocations, fitKey, z))
  /\ UNCHANGED <<fitKey, filteredLocations, interacted>>
  /\ UNCHANGED notViewportVars

\* the user drags the map: 'dragstart'
UserDrag ==
  /\ renders < MaxRenders
  /\ renders' = renders + 1
  /\ autoFitLockedRef' = TRUE
  /\ interacted' = TRUE
  /\ UNCHANGED <<lastBoundsRef, lastFitKeyRef, fitKey, filteredLocations, fitTargets, zoom,
                 mapActions>>
  /\ UNCHANGED notViewportVars

\* the user zooms the map: 'zoomstart'
UserZoom(z) ==
  /\ renders < MaxRenders
  /\ z # zoom
  /\ renders' = renders + 1
  /\ zoom' = z
  /\ autoFitLockedRef' = TRUE
  /\ interacted' = TRUE
  /\ UNCHANGED <<lastBoundsRef, lastFitKeyRef, fitKey, filteredLocations, fitTargets,
                 mapActions>>
  /\ UNCHANGED notViewportVars

ViewportNext ==
  \/ \E list \in LocationLists, z \in Zooms : DataArrives(list, z)
  \/ \E z \in Zooms : FitKeyIncrement(z)
  \/ \E i \in 1..Len(filteredLocations) : SelectLocation(i)
  \/ \E z \in Zooms : ReleaseFocus(z)
  \/ UserDrag
  \/ \E z \in Zooms : UserZoom(z)

SpecViewport == AllInit /\ [][ViewportNext]_vars

(***************************************************************************)
(* GET /api/devices/status.  Time is in ms.  A device row is written by    *)
(* registerDevice before, and outside, the transaction that stores the     *)
(* sample, so a device can be in table devices with no row in locations.   *)
(***************************************************************************)
onlineWindow == 300000

StatusDevices == {1, 2}
StatusInstants == {0, 1, 299999, 300000, 300001, 600000}
StatusStamps == {0, 1}

\* db.registerDevice: last_seen = CURRENT_TIMESTAMP
StatusRegister(d) ==
  /\ statusDevices' = Put(statusDevices, d, statusClock)
  /\ statusResponse' = <<>>
  /\ UNCHANGED <<statusLocations, statusClock>>
  /\ UNCHANGED notStatusVars

\* db.addLocation commits: the row, and last_seen = GREATEST(last_seen, timestamp)
StatusStore(d, ts) ==
  /\ d \in DOMAIN statusDevices
  /\ Cardinality(statusLocations) < MaxStatusRows
  /\ statusLocations' = statusLocations \cup {[device_id |-> d, timestamp |-> ts]}
  /\ statusDevices' = Put(statusDevices, d,
                          IF ts > statusDevices[d] THEN ts ELSE statusDevices[d])
  /\ statusResponse' = <<>>
  /\ UNCHANGED statusClock
  /\ UNCHANGED notStatusVars

\* time passes
StatusTick(t) ==
  /\ t > statusClock
  /\ statusClock' = t
  /\ statusResponse' = <<>>
  /\ UNCHANGED <<statusDevices, statusLocations>>
  /\ UNCHANGED notStatusVars

\* latestLocations.find(loc => loc.device_id === device.device_id), as a set
LatestOf(rows, d) ==
  {r \in rows : r.device_id = d /\ \A q \in rows : q.device_id = d => q.timestamp <= r.timestamp}

\* timeDiff < 5 * 60 * 1000
IsOnline(timeDiff) == timeDiff < onlineWindow

\* one element of devices.map(device => ...)
DeviceStatus(rows, d, last_seen, t) ==
  LET location == LatestOf(rows, d)
      lastSeen == IF location # {} THEN (CHOOSE r \in location : TRUE).timestamp
                  ELSE last_seen
  IN [deviceId |-> d, lastSeen |-> lastSeen, isOnline |-> IsOnline(t - lastSeen)]

\* GET /api/devices/status
GetDeviceStatus ==
  /\ statusResponse' =
       <<[now |-> statusClock,
          statuses |-> {DeviceStatus(statusLocations, d, statusDevices[d], statusClock) :
                          d \in DOMAIN statusDevices}]>>
  /\ UNCHANGED <<statusDevices, statusLocations, statusClock>>
  /\ UNCHANGED notStatusVars

StatusNext ==
  \/ \E d \in StatusDevices : StatusRegister(d)
  \/ \E d \in StatusDevices, ts \in StatusStamps : StatusStore(d, ts)
  \/ \E t \in StatusInstants : StatusTick(t)
  \/ GetDeviceStatus

SpecStatus == AllInit /\ [][StatusNext]_vars

(***************************************************************************)
(* The SQLite-backed server: POST /api/locations/update and batch-update   *)
(* over Database.  Column timestamp is TEXT; the texts are ISO strings of  *)
(* one format, so their order is the order of the instants.  Table         *)
(* locations has an AUTOINCREMENT id and no UNIQUE constraint.             *)
(***************************************************************************)
SqliteDevices == {1, 2}

SqliteStamps == 0..MaxTs

\* a request entry; complete is FALSE when a required field is missing
SqliteUpdates == [deviceId : SqliteDevices, timestamp : SqliteStamps, complete : BOOLEAN]

SqliteBatches == UNION {[1..n -> SqliteUpdates] : n \in 1..MaxBatch}

\* SELECT * FROM locations WHERE deviceId = ? ORDER BY timestamp DESC LIMIT 1:
\* <<>> for null; rows that tie carry the same timestamp
getLatestLocation(rows, deviceId) ==
  LET mine == {i \in 1..Len(rows) : rows[i].deviceId = deviceId}
  IN IF mine = {} THEN <<>>
     ELSE <<rows[CHOOSE i \in mine : \A j \in mine : rows[j].timestamp <= rows[i].timestamp]>>

\* INSERT INTO locations (deviceId, latitude, longitude, timestamp) VALUES (?, ?, ?, ?)
addLocation(rows, location) ==
  Append(rows, [id |-> Len(rows) + 1, deviceId |-> location.deviceId,
                timestamp |-> location.timestamp])

\* validation, getLatestLocation, isNewLocation, addLocation, for one entry
SqliteStore(rows, update) ==
  LET existingLocation == getLatestLocation(rows, update.deviceId)
      isNewLocation == existingLocation = <<>>
                         \/ existingLocation[1].timestamp # update.timestamp
  IN IF ~update.complete THEN rows
     ELSE IF isNewLocation THEN addLocation(rows, update)
     ELSE rows

RECURSIVE SqliteStoreAll(_, _)
\* for (const update of locationUpdates)
SqliteStoreAll(rows, updates) ==
  IF updates = <<>> THEN rows
  ELSE SqliteStoreAll(SqliteStore(rows, Head(updates)), Tail(updates))

\* POST /api/locations/update
SqliteUpdate(update) ==
  /\ Len(sqliteLocations) < MaxSqliteRows
  /\ sqliteLocations' = SqliteStore(sqliteLocations, update)
  /\ UNCHANGED notSqliteVars

\* POST /api/locations/batch-update
SqliteBatchUpdate(updates) ==
  /\ Len(sqliteLocations) + Len(updates) <= MaxSqliteRows
  /\ sqliteLocations' = SqliteStoreAll(sqliteLocations, updates)
  /\ UNCHANGED notSqliteVars

SqliteNext ==
  \/ \E update \in SqliteUpdates : SqliteUpdate(update)
  \/ \E updates \in SqliteBatches : SqliteBatchUpdate(updates)

SpecSqlite == AllInit /\ [][SqliteNext]_vars

(***************************************************************************)
(* The startup of the viewer: the mount effects of MainApp (socket         *)
(* connect, loadInitialData, the history effect), the isLoading effect and *)
(* handleRefresh.  The server holds its rows when the viewer opens; every  *)
(* request is answered from them.  The results arrive in any order, except *)
(* that initial_locations answers the request_initial_data sent on         *)
(* connect.  The responses are successful ones; getDeviceStatus is left    *)
(* out.                                                                    *)
(***************************************************************************)
Result(kind, key, data) == [kind |-> kind, key |-> key, aborted |-> FALSE, data |-> data]

\* the history effect: cleanup of the previous run (controller.abort()), then
\* getAllLocationHistory
RefetchHistory(pending, key, rows) ==
  {IF r.kind = "history" THEN Abort(r) ELSE r : r \in pending}
    \cup {Result("history", key, HistoryRows(rows))}

\* a row the server holds before the viewer opens
StartupStore(d, ts) ==
  /\ ~mounted
  /\ Cardinality(stored) < MaxDeltas
  /\ stored' = stored \cup {Location(d, ts)}
  /\ UNCHANGED <<locations, isConnected, error, historyReloadKey, startupVars>>
  /\ UNCHANGED notStartupVars

\* the effects of the mount: websocketService.connect, loadInitialData, and the
\* history effect (the isLoading effect returns: isLoading is true)
Mount ==
  /\ ~mounted
  /\ mounted' = TRUE
  /\ error' = <<>>
  /\ pendingResults' = {Result("connect", 0, <<>>),
                         Result("latest", 0, LatestRows(stored)),
                         Result("history", historyReloadKey, HistoryRows(stored))}
  /\ UNCHANGED <<stored, locations, isConnected, historyReloadKey, isLoading>>
  /\ UNCHANGED notStartupVars

\* a result arrives: socket.on('connect'), socket.on('initial_locations'), the
\* await of loadInitialData or the await of fetchHistory; then the isLoading
\* effect, if isLoading went from true to false
DeliverResult(res) ==
  /\ res \in pendingResults
  /\ LET rest == (pendingResults \ {res})
                    \cup (IF res.kind = "connect"
                            THEN {Result("initial", 0, LatestRows(stored))} ELSE {})
         loaded == res.kind # "history"
     IN /\ locations' = IF res.kind \in {"latest", "initial"} \/ (res.kind = "history" /\ ~res.aborted)
                           THEN ReplaceLocations(locations, res.data)
                           ELSE locations
        /\ isConnected' = IF res.kind = "connect" THEN TRUE ELSE isConnected
        /\ error' = IF res.kind = "connect" \/ (res.kind = "history" /\ ~res.aborted)
                       THEN <<>> ELSE error
        /\ isLoading' = IF loaded THEN FALSE ELSE isLoading
        /\ IF loaded /\ isLoading
             THEN /\ historyReloadKey' = historyReloadKey + 1
                  /\ pendingResults' = RefetchHistory(rest, historyReloadKey + 1, stored)
             ELSE /\ pendingResults' = rest
                  /\ UNCHANGED historyReloadKey
  /\ UNCHANGED <<stored, mounted>>
  /\ UNCHANGED notStartupVars

\* handleRefresh: setHistoryReloadKey(k => k + 1), and the history effect
StartupRefresh ==
  /\ mounted
  /\ historyReloadKey < MaxRefetches
  /\ historyReloadKey' = historyReloadKey + 1
  /\ pendingResults' = RefetchHistory(pendingResults, historyReloadKey + 1, stored)
  /\ UNCHANGED <<stored, locations, isConnected, error, mounted, isLoading>>
  /\ UNCHANGED notStartupVars

StartupNext ==
  \/ \E d \in ViewerDevices, ts \in ViewerStamps : StartupStore(d, ts)
  \/ Mount
  \/ \E res \in pendingResults : DeliverResult(res)
  \/ StartupRefresh

SpecStartup == AllInit /\ [][StartupNext]_vars

(***************************************************************************)
(* The sends of MainViewModel in the order they are made.  sendLocations   *)
(* asks the filter and starts a data task; the completion handlers run on  *)
(* the main queue, in the order the responses arrive.  A sample carries    *)
(* the timestamp the Find My cache reports for it, which may be an old     *)
(* one that never changes.                                                 *)
(***************************************************************************)
\* a data task of sendLocationUpdate(device)
Send(seq, deviceId, latitude, timestamp) ==
  [seq |-> seq, deviceId |-> deviceId, latitude |-> latitude, timestamp |-> timestamp]

\* markAsUploaded(..., timestamp: device timestamp, ...)
SampleTimestamp(send, currentTime) == send.timestamp

\* markAsUploaded(..., timestamp: Date(), ...)
AckTimestamp(send, currentTime) == currentTime

\* sendLocations for one device: shouldUpload, then sendLocationUpdate
UploadSend(deviceId, latitude, timestamp) ==
  LET locs == LoadedLocations(lastUploadedLocations, lastUploadedTimestamps,
                              defaultsLocations, deviceId)
      tss == LoadedTimestamps(lastUploadedLocations, lastUploadedTimestamps,
                              defaultsTimestamps, deviceId)
  IN /\ sendCount < MaxSends
     /\ timestamp <= time
     /\ lastUploadedLocations' = locs
     /\ lastUploadedTimestamps' = tss
     /\ IF shouldUpload(locs, tss, deviceId,
                        CLLocation(latitude, FindMyAccuracy, timestamp), time)
          THEN /\ sends' = sends \cup {Send(sendCount + 1, deviceId, latitude, timestamp)}
               /\ sendCount' = sendCount + 1
          ELSE UNCHANGED <<sends, sendCount>>
     /\ UNCHANGED <<defaultsLocations, defaultsTimestamps, recordedSend>>
     /\ UNCHANGED notUploadVars

\* completion handler, (200...299).contains(status): markAsUploaded
UploadAck(send) ==
  LET at == AckTimestamp(send, time)
      location == CLLocation(send.latitude, FindMyAccuracy, at)
  IN /\ send \in sends
     /\ sends' = sends \ {send}
     /\ lastUploadedLocations' = Put(lastUploadedLocations, send.deviceId, location)
     /\ lastUploadedTimestamps' = Put(lastUploadedTimestamps, send.deviceId, at)
     /\ defaultsLocations' = Put(defaultsLocations, send.deviceId, location)
     /\ defaultsTimestamps' = Put(defaultsTimestamps, send.deviceId, at)
     /\ recordedSend' = Put(recordedSend, send.deviceId,
                            [seq |-> send.seq, at |-> time, sample |-> send])
     /\ UNCHANGED sendCount
     /\ UNCHANGED notUploadVars

\* completion handler: an error, no HTTP response, or a status outside 200...299
UploadFails(send) ==
  /\ send \in sends
  /\ sends' = sends \ {send}
  /\ UNCHANGED <<lastUploadedLocations, lastUploadedTimestamps, defaultsLocations,
                 defaultsTimestamps, sendCount, recordedSend>>
  /\ UNCHANGED notUploadVars

UploadNext ==
  \/ \E d \in FilterDevices, pos \in SourcePositions, ts \in Instants : UploadSend(d, pos, ts)
  \/ \E send \in sends : UploadAck(send)
  \/ \E send \in sends : UploadFails(send)
  \/ \E t \in Instants : ClockAdvance(t)

SpecUploads == AllInit /\ [][UploadNext]_vars

(***************************************************************************)
(* The polling timer of MainViewModel.  start, updatePollingInterval and   *)
(* the completion handler of pair all run on the main queue, so each is    *)
(* one step.  The saved config may or may not hold a token when start      *)
(* reads it.                                                               *)
(***************************************************************************)
AvailableIntervals == {10, 30, 60, 120, 300, 600}

\* a restart that leaves the previous Timer on the run loop
KeepScheduled(scheduled, timerRef) == scheduled

\* timer?.invalidate()
Invalidate(scheduled, timerRef) == {t \in scheduled : timerRef # <<t>>}

\* startPolling(): invalidate, then Timer.scheduledTimer(withTimeInterval: pollInterval)
startPolling(interval) ==
  LET created == [id |-> timersCreated + 1, interval |-> interval]
  IN /\ timersCreated' = timersCreated + 1
     /\ scheduledTimers' = Invalidate(scheduledTimers, timer) \cup {created}
     /\ timer' = <<created>>

\* start(): loadConfigFromDisk, isPaired from the token, startPolling if paired
Start(found) ==
  /\ timersCreated < MaxTimers
  /\ authToken' = (authToken \/ found)
  /\ isPaired' = (authToken \/ found)
  /\ IF authToken \/ found
       THEN startPolling(pollInterval)
       ELSE UNCHANGED <<timer, scheduledTimers, timersCreated>>
  /\ UNCHANGED <<pollInterval, pairRequests>>
  /\ UNCHANGED notTimerVars

\* updatePollingInterval(newInterval)
UpdatePollingInterval(newInterval) ==
  /\ timersCreated < MaxTimers
  /\ pollInterval' = newInterval
  /\ IF isPaired
       THEN startPolling(newInterval)
       ELSE UNCHANGED <<timer, scheduledTimers, timersCreated>>
  /\ UNCHANGED <<authToken, isPaired, pairRequests>>
  /\ UNCHANGED notTimerVars

\* pair(with:): the request is sent
Pair ==
  /\ pairRequests < MaxPairRequests
  /\ pairRequests' = pairRequests + 1
  /\ UNCHANGED <<authToken, isPaired, pollInterval, timer, scheduledTimers, timersCreated>>
  /\ UNCHANGED notTimerVars

\* completion handler of pair, status 200 with a token: startPolling
PairSucceeds ==
  /\ pairRequests > 0
  /\ timersCreated < MaxTimers
  /\ pairRequests' = pairRequests - 1
  /\ authToken' = TRUE
  /\ isPaired' = TRUE
  /\ startPolling(pollInterval)
  /\ UNCHANGED pollInterval
  /\ UNCHANGED notTimerVars

\* completion handler of pair: an error, another status, or no token
PairFails ==
  /\ pairRequests > 0
  /\ pairRequests' = pairRequests - 1
  /\ UNCHANGED <<authToken, isPaired, pollInterval, timer, scheduledTimers, timersCreated>>
  /\ UNCHANGED notTimerVars

TimerNext ==
  \/ \E found \in BOOLEAN : Start(found)
  \/ \E newInterval \in AvailableIntervals : UpdatePollingInterval(newInterval)
  \/ Pair
  \/ PairSucceeds
  \/ PairFails

SpecTimer == AllInit /\ [][TimerNext]_vars

(***************************************************************************)
(* Claims about the ingest endpoint.                                       *)
(***************************************************************************)
KeyOf(reply) ==
  <<reply.body[1].deviceId, reply.userId, reply.body[1].timestamp>>

RowsWithKey(deviceId, userId, ts) ==
  {r \in locationsTable : r.device_id = deviceId /\ r.user_id = userId /\ r.timestamp = ts}

\* two single-update requests answered one after the other, neither
\* overlapping any other request, both carrying the same valid sample key
InSuccession(a, b) ==
  /\ a.kind = "single" /\ b.kind = "single"
  /\ a.status = 200 /\ b.status = 200
  /\ ~a.overlapped /\ ~b.overlapped
  /\ KeyOf(a) = KeyOf(b)

\* C1: submitting the same (entityId, timestamp) sample twice in succession to
\* the single-update endpoint answers isNew=true the first time, isNew=false
\* the second time, and leaves exactly one stored row for that key.
C1_SecondSubmissionIsDuplicate ==
  \A j \in 2..Len(respLog) :
    LET a == respLog[j - 1]
        b == respLog[j]
    IN (InSuccession(a, b) /\ \A k \in 1..(j - 2) : respLog[k].status # 200)
         => /\ a.isNew
            /\ ~b.isNew
            /\ Cardinality(RowsWithKey(b.body[1].deviceId.n, b.userId,
                                       ToTimestamptz(b.body[1].timestamp))) = 1

\* the case of C1: the same key was submitted twice in succession
C1_Witness ==
  /\ Len(respLog) = 2
  /\ InSuccession(respLog[1], respLog[2])

\* C2: the locations table never holds two rows with the same
\* (device_id, user_id, timestamp), whatever the interleaving of single and
\* batch requests, retries and resubmissions of older timestamps.
C2_UniqueKey ==
  \A r1, r2 \in locationsTable :
    (r1.device_id = r2.device_id /\ r1.user_id = r2.user_id /\ r1.timestamp = r2.timestamp)
      => r1 = r2

\* the case of C2: a handler has just committed a key that was already stored
\* and is older than the latest row it fetched for the duplicate check
C2_Witness ==
  \E h \in Handlers :
    /\ handler[h].pc = "emit"
    /\ Len(handler[h].existingLocations) = 1
    /\ handler[h].existingLocations[1].timestamp.n > handler[h].savedLocation[1].timestamp.n
    /\ handler[h].savedLocation[1].id < handler[h].existingLocations[1].id

\* the entry handler h is working on carries the timestamp of the stored
\* latest sample of its entity
DuplicateCandidate(h) ==
  LET hr == handler[h]
      rows == getLatestLocations(locationsTable, hr.userId, hr.body[hr.i].deviceId.n)
  IN /\ Len(rows) = 1
     /\ rows[1].timestamp.n = ToTimestamptz(hr.body[hr.i].timestamp)

\* C3: a candidate whose timestamp equals the stored latest sample's timestamp
\* is answered isNew=false and changes nothing: no write to the locations or
\* devices table and no location_update broadcast.
C3_DuplicateChangesNothing ==
  [][ \A h \in Handlers :
        ( /\ handler[h].pc \in {"registerDevice", "getLatestLocations"}
          /\ DuplicateCandidate(h)
          /\ handler'[h].pc # handler[h].pc
          /\ failures' = failures )
        => /\ locationsTable' = locationsTable
           /\ devicesTable' = devicesTable
           /\ emitted' = emitted
           /\ handler'[h].pc # "addLocation" ]_vars

\* C4: every emitted location_update carries a row that is committed in the
\* locations table; an entry whose transaction failed or was rolled back is
\* never emitted.
C4_EmitAfterCommit ==
  /\ \A k \in 1..Len(emitted) :
       \E r \in locationsTable :
         /\ r.id = emitted[k].location.id
         /\ r.device_id = emitted[k].location.device_id
         /\ r.user_id = emitted[k].location.user_id
         /\ r.timestamp = emitted[k].location.timestamp.n
  /\ \A k \in 1..Len(respLog) : \A e \in 1..Len(respLog[k].errors) :
       ~\E m \in 1..Len(emitted) :
          emitted[m].req = respLog[k].req /\ emitted[m].i = respLog[k].errors[e].i

\* the case of C4: one sample was emitted after its commit, and another
\* request's transaction failed at COMMIT and emitted nothing
C4_Witness ==
  /\ Len(emitted) = 1
  /\ \E k \in 1..Len(respLog) :
       /\ respLog[k].status = 500
       /\ respLog[k].errors = <<[i |-> 1, pc |-> "COMMIT"]>>

(***************************************************************************)
(* Claims about the source: the upload filter and the sends.               *)
(***************************************************************************)
\* the network is fair: polling goes on, time passes, and a send that is put
\* in flight again and again is acknowledged
SourceFairness ==
  /\ WF_vars(Poll)
  /\ WF_vars(\E dt \in PollIntervals : Tick(dt))
  /\ \A pos \in SourcePositions :
       SF_vars(Ack2xx(Request(DeviceLocation(TrackedDevice, pos), FALSE)))

\* the source with one device in the Find My cache, under a fair network
SpecSourceFair == AllInit /\ [][OneDeviceNext]_vars /\ SourceFairness

\* what the filter will read for a device: the cached entry, else the persisted one
FilterState(d) ==
  LET locs == LoadedLocations(lastUploadedLocations, lastUploadedTimestamps,
                              defaultsLocations, d)
      tss == LoadedTimestamps(lastUploadedLocations, lastUploadedTimestamps,
                              defaultsTimestamps, d)
  IN [lastUploadedSample |-> IF d \in DOMAIN locs THEN <<locs[d]>> ELSE <<>>,
      lastUploadTimestamp |-> IF d \in DOMAIN tss THEN <<tss[d]>> ELSE <<>>]

\* C5: the FilterState of a device changes only in the step in which a send
\* for that device is acknowledged with a 2xx status.  A poll (shouldUpload),
\* a transport error, a missing HTTP response, a non-2xx response, a relaunch
\* and a change of the Find My cache leave every device's FilterState as it
\* was.  (A clock step only moves the epoch the stored times are counted from.)
C5_FilterStateChangesOnlyOnAck ==
  [][ \/ \E dt \in PollIntervals : Tick(dt)
      \/ \A d \in SourceDevices :
           FilterState(d)' # FilterState(d) =>
             \E r \in inflight : r.device.id = d /\ Ack2xx(r) ]_vars

\* C5 witness: a send of device 1 has failed and left a FilterState that
\* holds another position, while a send of device 2 was acknowledged.
C5_Witness ==
  /\ 1 \in DOMAIN outcome /\ outcome[1].status = "failed"
  /\ FilterState(1).lastUploadedSample # <<>>
  /\ FilterState(1).lastUploadedSample[1].coordinate # outcome[1].device.latitude
  /\ 2 \in DOMAIN outcome /\ outcome[2].status = "2xx"
  /\ FilterState(2).lastUploadedSample # <<>>

\* the last send of device d to complete failed, no send of d was acknowledged
\* since that send was issued, and the source still reports that sample
FailedAndStillReported(d) ==
  /\ d \in DOMAIN outcome /\ d \in DOMAIN cache
  /\ outcome[d] = [device |-> cache[d], status |-> "failed"]

\* in a polling cycle in which the source still reports a sample whose send
\* failed, and no send for that device has been acknowledged in the meantime,
\* shouldUpload returns true again and the sample is put in flight again
FailedSampleIsResent ==
  \A d \in DOMAIN polled :
    FailedAndStillReported(d) => polled[d] /\ Request(cache[d], FALSE) \in inflight

EventuallyAcknowledged ==
  \A pos \in SourcePositions :
    LET d == TrackedDevice
    IN (FailedAndStillReported(d) /\ cache[d] = DeviceLocation(d, pos))
         ~> \/ d \in DOMAIN outcome
               /\ outcome[d] = [device |-> DeviceLocation(d, pos), status |-> "2xx"]
            \/ d \notin DOMAIN cache
            \/ cache[d] # DeviceLocation(d, pos)

C10_ColdStartAlwaysUploads ==
  (decision.deviceId # 0 /\ decision.lastLocation = <<>> /\ decision.lastTimestamp = <<>>)
    => decision.result

\* C10 witness: a candidate with poor accuracy is accepted at a later time by
\* a filter that holds no state.
C10_Witness ==
  /\ decision.deviceId # 0
  /\ decision.lastLocation = <<>> /\ decision.lastTimestamp = <<>>
  /\ decision.location.horizontalAccuracy > maxAccuracyThreshold
  /\ decision.currentTime > 0
  /\ decision.result

(***************************************************************************)
(* Claims about the viewer.                                                *)
(***************************************************************************)
\* C7: the viewer's history list never holds two entries with the same
\* (deviceId, timestamp), whatever the interleaving of snapshots and deltas.
C7_HistoryHasNoDuplicateKey ==
  \A i, j \in 1..Len(locations) :
    SampleKey(locations[i]) = SampleKey(locations[j]) => i = j

\* a list of samples of one device with pairwise distinct timestamps
DistinctSamplesOfOneDevice(locs) ==
  /\ \A i, j \in 1..Len(locs) : locs[i].deviceId = locs[j].deviceId
  /\ \A i, j \in 1..Len(locs) : locs[i].timestamp = locs[j].timestamp => i = j

\* the same samples in another order
Reordered(locs, perm) == [i \in 1..Len(locs) |-> locs[perm[i]]]

\* C8: for the samples of one device with pairwise distinct timestamps, the
\* latest-per-device fold of the history gives the same result for every
\* order of the samples, and that result is the sample with the greatest
\* timestamp.
C8_LatestIsOrderIndependent ==
  (locations # <<>> /\ DistinctSamplesOfOneDevice(locations)) =>
    \A perm \in Permutations(1..Len(locations)) :
      LET latest == LatestPerDevice(Reordered(locations, perm))
      IN /\ latest = LatestPerDevice(locations)
         /\ Len(latest) = 1
         /\ \E i \in 1..Len(locations) : latest[1] = locations[i]
         /\ \A i \in 1..Len(locations) :
              NewDate(locations[i].timestamp) <= NewDate(latest[1].timestamp)

\* C8 witness: three samples arrived with the newest in the middle, and the
\* fold gives the newest.
C8_Witness ==
  /\ Len(locations) = 3
  /\ DistinctSamplesOfOneDevice(locations)
  /\ NewDate(locations[1].timestamp) = 2
  /\ NewDate(locations[2].timestamp) = 3
  /\ NewDate(locations[3].timestamp) = 1
  /\ LatestPerDevice(locations) = <<locations[2]>>

\* the newest committed sample of its device
NewestStored(k) ==
  \A r \in stored : r.deviceId = k[1] => NewDate(r.timestamp) <= k[2]

\* C9: a sample that was delivered to the viewer as a location_update is
\* still in the history list after a snapshot has been applied, also when the
\* snapshot was read before the sample was committed.  Stated for the newest
\* sample of a device, which both kinds of snapshot (latest rows, full
\* history) contain whenever they are read after its commit.
C9_DeliveredDeltaSurvivesSnapshot ==
  \A k \in delivered :
    NewestStored(k) => \E i \in 1..Len(locations) : SampleKey(locations[i]) = k

(***************************************************************************)
(* Claims about the decision order of the upload filter.                   *)
(***************************************************************************)
\* the shouldUpload call just made found a last location and a last upload time
DecidedWithState ==
  decision.deviceId # 0 /\ decision.lastLocation # <<>> /\ decision.lastTimestamp # <<>>

\* what the claims call elapsed time, distance and accuracy improvement
Elapsed == decision.currentTime - decision.lastTimestamp[1]
Moved == Distance(decision.location, decision.lastLocation[1])
ImprovedByMoreThan40Percent ==
  LET last == decision.lastLocation[1].horizontalAccuracy
      new == decision.location.horizontalAccuracy
  IN last > 0 /\ new > 0 /\ (last - new) * 100 > 40 * last

\* C11: with a FilterState and a candidate accuracy of at most 150 m, an
\* elapsed time below 5 s makes shouldUpload return false, also when the
\* distance is 20 m or more or the accuracy improved by more than 40%.
C11_RateLimitRejects ==
  (DecidedWithState /\ decision.location.horizontalAccuracy <= 150 /\ Elapsed < 5)
    => ~decision.result

\* C11 witness: a candidate 4 s after the last upload, 41 m away and with a
\* much better accuracy, is rejected.
C11_Witness ==
  /\ DecidedWithState /\ Elapsed = 4 /\ Moved = 41
  /\ decision.location.horizontalAccuracy = 5
  /\ ImprovedByMoreThan40Percent
  /\ ~decision.result

C13_PoorAccuracyNeedsFarMove ==
  (decision.deviceId # 0 /\ decision.lastLocation # <<>>
     /\ decision.location.horizontalAccuracy > 150)
    => (decision.result <=> Moved > 40)

\* C13 witness: a poor fix 41 m away is accepted in the same second as the
\* last upload.
C13_Witness ==
  /\ DecidedWithState /\ decision.location.horizontalAccuracy = 151
  /\ Elapsed = 0 /\ Moved = 41 /\ decision.result

(***************************************************************************)
(* Claims about the polling cycle of the source.                           *)
(***************************************************************************)
\* device d has not moved from its last acknowledged position and a send of
\* its sample, issued after that acknowledgement, is still in flight
HeartbeatOutstanding(d) ==
  /\ d \in DOMAIN cache
  /\ FilterState(d).lastUploadedSample # <<>>
  /\ FilterState(d).lastUploadedSample[1].coordinate = cache[d].latitude
  /\ Request(cache[d], FALSE) \in inflight

\* C14: a stationary device gets one transmission per heartbeat: between the
\* heartbeat send and its acknowledgement no polling cycle transmits that
\* device again, whatever the polling interval and the response latency.
C14_OneHeartbeatTransmission ==
  [][\A d \in DOMAIN polled' : HeartbeatOutstanding(d) => ~polled'[d]]_vars

\* C15: the sample/send cycle is single-flight: a polling cycle (timer tick
\* or sendNow) sends nothing while a network exchange of an earlier cycle is
\* still outstanding.
C15_SingleFlight ==
  [][inflight # {} => \A d \in DOMAIN polled' : ~polled'[d]]_vars

(***************************************************************************)
(* Claims about stored samples, atomicity and errors of the ingest routes. *)
(***************************************************************************)
SameKey(r, q) ==
  r.device_id = q.device_id /\ r.user_id = q.user_id /\ r.timestamp = q.timestamp

\* C16: once a sample is stored under a key (device, owner, timestamp), the
\* latitude and longitude stored under that key never change, whatever
\* ingest requests follow.
C16_StoredSampleNeverChanges ==
  [][\A r \in locationsTable : \A q \in locationsTable' :
       SameKey(r, q) => (q.latitude = r.latitude /\ q.longitude = r.longitude)]_vars

\* the step in which handler h's transaction commits
Committing(h) == handler[h].pc = "COMMIT" /\ handler'[h].pc = "emit"

\* C17: the location row and the device's last_seen of one ingest change
\* together: no step changes the devices table without storing that
\* request's row, and no step stores a row without the last_seen update.
C17_RowAndLastSeenAtomic ==
  [][ /\ devicesTable' # devicesTable => \E h \in Handlers : Committing(h)
      /\ locationsTable' # locationsTable =>
           \E h \in Handlers :
             Committing(h)
             /\ devicesTable' = UpdateLastSeen(devicesTable, handler[h].userId,
                                               Update(handler[h]).deviceId.n,
                                               Update(handler[h]).timestamp.n) ]_vars

\* an update without deviceId, with a latitude or longitude that is not a
\* number, or without timestamp
LacksRequiredField(u) ==
  \/ u.deviceId.type = "undefined"
  \/ u.latitude.type # "number"
  \/ u.longitude.type # "number"
  \/ u.timestamp.type = "undefined"

\* C18: a single update that lacks a required field is answered with an
\* error (400) and never gets past validation: no handler ever does database
\* work or broadcasts for it.
C18_InvalidSingleRejected ==
  /\ \A h \in Handlers :
       (Active(h) /\ handler[h].kind = "single") => ~LacksRequiredField(handler[h].body[1])
  /\ \A k \in 1..Len(respLog) :
       (respLog[k].kind = "single" /\ LacksRequiredField(respLog[k].body[1]))
         => /\ respLog[k].status = 400
            /\ \A e \in 1..Len(emitted) : emitted[e].req # respLog[k].req

\* C18 witness: a single update without timestamp was rejected after another
\* request had stored a row and broadcast it; the store holds that row only.
C18_Witness ==
  /\ Len(respLog) = 2
  /\ respLog[2].kind = "single" /\ respLog[2].status = 400
  /\ respLog[2].body[1].timestamp.type = "undefined"
  /\ Cardinality(locationsTable) = 1 /\ Len(emitted) = 1
  /\ Cardinality(devicesTable) = 1

\* the entries of a batch body that pass validation
ValidEntries(body) == {k \in 1..Len(body) : ~LacksRequiredField(body[k])}

\* C19: a batch-update with an array body is answered with success, its
\* invalid entries are skipped, and processed is the number of valid
\* entries, of which newLocations were judged new.
C19_BatchCountsValidEntries ==
  \A k \in 1..Len(respLog) :
    (respLog[k].kind = "batch" /\ respLog[k].body # <<>>)
      => /\ respLog[k].status = 200
         /\ respLog[k].processed = Cardinality(ValidEntries(respLog[k].body))
         /\ respLog[k].newLocations <= respLog[k].processed

\* a database call of addLocation failed while this reply's request was served
PersistFailed(reply) ==
  \E k \in 1..Len(reply.errors) : reply.errors[k].pc \in {"addLocation", "COMMIT"}

\* C20: when persisting a sample fails, on either route, nothing of the
\* transaction is stored, nothing is broadcast for that sample, and the
\* caller gets an error response, not a success.
C20_PersistFailureSurfaced ==
  \A k \in 1..Len(respLog) :
    PersistFailed(respLog[k]) =>
      /\ respLog[k].status = 500
      /\ \A e \in 1..Len(emitted) :
           emitted[e].req = respLog[k].req =>
             \A f \in 1..Len(respLog[k].errors) : respLog[k].errors[f].i # emitted[e].i

(***************************************************************************)
(* Claims about the live channel.                                          *)
(***************************************************************************)
LastReceipt == receipts[Len(receipts)]

CommittedWhileDown(loc) ==
  \E k \in 1..Len(emitLog) :
    emitLog[k].sample = loc /\ emitLog[k].to = {} /\ emitLog[k].after >= 1

Shown(loc) == \E i \in 1..Len(locations) : locations[i] = loc

\* C22: a sample committed while the viewer's channel is down eventually
\* appears in the viewer's locations without any user action.
C22_DownChannelFallsBackToPolling ==
  \A d \in ViewerDevices, ts \in ViewerStamps :
    CommittedWhileDown(Location(d, ts)) ~> Shown(Location(d, ts))

\* C29: every location_update the viewer handles was emitted while the
\* session that handles it was connected, and no emit is handled twice by a
\* session: nothing is kept for a session that is down or connects later.
C29_AtMostOnceUnbuffered ==
  /\ \A k \in 1..Len(receipts) :
       receipts[k].event = "location_update"
         => receipts[k].session \in emitLog[receipts[k].emit].to
  /\ \A j, k \in 1..Len(receipts) :
       (j # k /\ receipts[j].event = "location_update"
          /\ receipts[k].event = "location_update")
         => <<receipts[j].emit, receipts[j].session>> # <<receipts[k].emit, receipts[k].session>>

\* C29 witness: one emit found no session and was never handled although a
\* session connected afterwards and handled its snapshot and a later emit.
C29_Witness ==
  /\ Len(emitLog) = 2
  /\ emitLog[1].to = {} /\ emitLog[2].to = {1}
  /\ \A k \in 1..Len(receipts) : receipts[k].emit # 1
  /\ \E k \in 1..Len(receipts) : receipts[k].emit = 2 /\ receipts[k].session = 1
  /\ wire = <<>>

(***************************************************************************)
(* Claims about the history fetch.                                         *)
(***************************************************************************)
Outstanding == {f \in fetches : ~f.aborted}

\* the step settles fetch f
Settles(f) == f \in fetches /\ f \notin fetches' /\ Abort(f) \notin fetches'

\* C27: at most one history fetch that is not aborted is outstanding, a new
\* run of the effect aborts the fetch in flight, and when an aborted fetch
\* settles, with a response or a failure, locations and error stay as they are.
C27_SupersededFetchIsIgnored ==
  /\ [](Cardinality(Outstanding) <= 1)
  /\ [][ /\ historyReloadKey' # historyReloadKey
             => \A f \in fetches' : f.key # historyReloadKey' => f.aborted
         /\ \A f \in fetches :
              (f.aborted /\ Settles(f))
                => (locations' = locations /\ error' = error
                    /\ loadingHistoryRef' = loadingHistoryRef) ]_vars

\* C27 witness: the newer fetch has been answered first and shows a history
\* the superseded fetch, still in flight, does not hold.
C27_Witness ==
  /\ Outstanding = {} /\ ~loadingHistoryRef
  /\ locations # <<>> /\ locations = HistoryRows(stored) /\ socketEvents = <<>>
  /\ \E f \in fetches : f.aborted /\ f.data # locations /\ f.key = 1
  /\ historyReloadKey = 2

\* C28: when a history fetch that was not superseded fails, locations stay as
\* they are, the error shown is the one already displayed or else the
\* history message, and loadingHistoryRef is cleared.
C28_FailedFetchLeavesStaleState ==
  [][\A f \in fetches :
       (~f.aborted /\ HistoryRejects(f))
         => /\ locations' = locations
            /\ error' = IF error = <<>>
                          THEN <<"History temporarily unavailable; showing latest only">>
                          ELSE error
            /\ ~loadingHistoryRef' ]_vars

\* C28 witness: a fetch has failed while a connection error was displayed
\* and a delta was in the list: the list and the error are kept, nothing is
\* loading.
C28_Witness ==
  /\ historyReloadKey = 1 /\ fetches = {} /\ ~loadingHistoryRef
  /\ error = <<"Failed to connect to server">>
  /\ locations # <<>>

(***************************************************************************)
(* Claims about the viewport.                                              *)
(***************************************************************************)
\* C23: while the lock is set no trigger moves the map: a step taken with
\* autoFitLockedRef true makes no setView or fitBounds call.
C23_LockedViewportNeverMoves ==
  [][autoFitLockedRef => mapActions' = mapActions]_vars

\* C24: the lock is set by the user's drags and zooms and by nothing else,
\* and once set it is never cleared.
C24_LockStickyAndManual ==
  /\ [](autoFitLockedRef <=> interacted)
  /\ [][autoFitLockedRef => autoFitLockedRef']_vars

\* all four bounds within eps of each other, and the same number of points
Near(a, b) ==
  /\ a.count = b.count
  /\ Abs(a.minLat - b.minLat) < eps /\ Abs(a.maxLat - b.maxLat) < eps
  /\ Abs(a.minLng - b.minLng) < eps /\ Abs(a.maxLng - b.maxLng) < eps

\* some bound further than eps away, or another number of points
Shifted(a, b) ==
  \/ a.count # b.count
  \/ Abs(a.minLat - b.minLat) > eps \/ Abs(a.maxLat - b.maxLat) > eps
  \/ Abs(a.minLng - b.minLng) > eps \/ Abs(a.maxLng - b.maxLng) > eps

\* C25: as long as the user has not touched the map, a data-driven request
\* whose bounds are within eps of the last fitted bounds, with the same
\* count, moves nothing and leaves lastBoundsRef alone, and one whose bounds
\* are shifted, or whose count differs, moves the map and updates
\* lastBoundsRef.
C25_SuppressionThenMovement ==
  [][\A list \in LocationLists :
       ( /\ \E z \in Zooms : DataArrives(list, z)
         /\ ~interacted /\ fitTargets = <<>> /\ list # <<>> /\ lastBoundsRef # <<>> )
         => /\ Near(lastBoundsRef[1], computeBounds(list))
                 => (mapActions' = mapActions /\ lastBoundsRef' = lastBoundsRef)
            /\ Shifted(lastBoundsRef[1], computeBounds(list))
                 => ( /\ Len(mapActions') = Len(mapActions) + 1
                      /\ lastBoundsRef' = <<computeBounds(list)>> ) ]_vars

\* the fit actions made on account of fitKey k
FitsFor(actions, k) ==
  {i \in 1..Len(actions) : actions[i].cause = "fitKey" /\ actions[i].fitKey = k}

\* C26: a fitKey is consumed in the render that brings it: it causes one fit
\* action when there is something to fit and none otherwise, and no later
\* render causes another on its account.
C26_FitKeyOneShot ==
  /\ [](/\ lastFitKeyRef = <<fitKey>>
        /\ \A k \in 0..fitKey : Cardinality(FitsFor(mapActions, k)) <= 1)
  /\ [][fitKey' # fitKey
          => Cardinality(FitsFor(mapActions', fitKey'))
               = IF Len(FitList(fitTargets', filteredLocations')) > 0 THEN 1 ELSE 0]_vars

\* C26 witness: fitKey 1 caused the first fit action; since then the map
\* was given other locations in later renders, and fitKey 1 still has one
\* fit action to its account.
C26_Witness ==
  /\ fitKey = 1 /\ renders >= 3
  /\ mapActions # <<>> /\ mapActions[1].cause = "fitKey"
  /\ filteredLocations # <<>>
  /\ mapActions[1].bounds # computeBounds(filteredLocations)
  /\ Cardinality(FitsFor(mapActions, 1)) = 1

(***************************************************************************)
(* Claims about the device status endpoint.                                *)
(***************************************************************************)
StoredSamplesOf(d) == {r \in statusLocations : r.device_id = d}

\* C30: every device of a status response has a stored sample, its lastSeen
\* is the timestamp of the latest one, and it is online exactly when
\* now - lastSeen is less than five minutes.
C30_OnlineIffFresh ==
  statusResponse # <<>> =>
    \A s \in statusResponse[1].statuses :
      /\ StoredSamplesOf(s.deviceId) # {}
      /\ \A r \in StoredSamplesOf(s.deviceId) : r.timestamp <= s.lastSeen
      /\ \E r \in StoredSamplesOf(s.deviceId) : r.timestamp = s.lastSeen
      /\ s.isOnline <=> (statusResponse[1].now - s.lastSeen < onlineWindow)

(***************************************************************************)
(* Claims about concurrent ingest handlers.                                *)
(***************************************************************************)
EmittedKey(e) == <<e.location.device_id, e.location.user_id, e.location.timestamp>>

\* C31: whatever the interleaving of the ingest handlers, no two
\* location_update broadcasts carry the same key (device, owner, timestamp).
C31_OneBroadcastPerKey ==
  \A j, k \in 1..Len(emitted) :
    j # k => EmittedKey(emitted[j]) # EmittedKey(emitted[k])

(***************************************************************************)
(* Claims about the SQLite-backed server.                                  *)
(***************************************************************************)
\* C32: the SQLite table locations never holds two rows with the same
\* (deviceId, timestamp), whatever update and batch-update requests were made.
C32_OneRowPerKey ==
  \A j, k \in 1..Len(sqliteLocations) :
    (/\ sqliteLocations[j].deviceId = sqliteLocations[k].deviceId
     /\ sqliteLocations[j].timestamp = sqliteLocations[k].timestamp) => j = k

(***************************************************************************)
(* Claims about the viewer's device statuses.                              *)
(***************************************************************************)
\* the location_update samples of a device the viewer's handler has run for
ReceivedSamplesOf(d) ==
  {receipts[k].data[1] : k \in {i \in 1..Len(receipts) :
       receipts[i].event = "location_update" /\ receipts[i].data[1].deviceId = d}}

\* C33: after any deliveries of location_update, every device's status entry
\* carries the lastSeen of the newest sample received for that device.
C33_StatusHoldsNewestSample ==
  \A d \in ViewerDevices :
    ReceivedSamplesOf(d) # {} =>
      /\ MapIndex(deviceStatuses, d) > 0
      /\ \A s \in ReceivedSamplesOf(d) :
           NewDate(s.timestamp) <= NewDate(deviceStatuses[MapIndex(deviceStatuses, d)].lastSeen)

(***************************************************************************)
(* Claims about the startup of the viewer.                                 *)
(***************************************************************************)
\* C34: once every result of the startup (and of any refresh) has been
\* delivered, the viewer's list is the full history, in whatever order the
\* results arrived.
C34_StartupEndsWithHistory ==
  (mounted /\ pendingResults = {}) => locations = HistoryRows(stored)

(***************************************************************************)
(* Claims about the size of the viewer's list.                             *)
(***************************************************************************)
\* getAllLocationHistory(2000, 30000): the limit of a snapshot, here the number
\* of rows the server can hold in one run, so that a snapshot can be full
historyLimit == MaxDeltas

\* C35: the viewer's list never grows beyond the limit of a snapshot, whatever
\* snapshots and location_update events were applied.
C35_ListIsCapped == Len(locations) <= historyLimit

(***************************************************************************)
(* Claims about Refresh and the viewport lock.                             *)
(***************************************************************************)
\* C36: when the user has panned or zoomed the map, pressing Refresh leaves
\* the viewport unlocked.
C36_RefreshUnlocks ==
  [][(interacted /\ \E z \in Zooms : FitKeyIncrement(z)) => ~autoFitLockedRef']_vars

(***************************************************************************)
(* Claims about the order of the acknowledgements at the source.           *)
(***************************************************************************)
\* C37: the FilterState of a device never regresses: lastUploadTimestamp never
\* decreases, and an acknowledgement never replaces the recorded sample by
\* one that was sent before it.
C37_FilterStateNeverRegresses ==
  [][/\ \A d \in DOMAIN lastUploadedTimestamps \cap DOMAIN lastUploadedTimestamps' :
          lastUploadedTimestamps[d] <= lastUploadedTimestamps'[d]
     /\ \A send \in sends :
          (UploadAck(send) /\ send.deviceId \in DOMAIN recordedSend)
            => recordedSend[send.deviceId].seq < send.seq]_vars

\* the sample a device keeps reporting after its last recorded acknowledgement
UnchangedSample(d) ==
  CLLocation(recordedSend[d].sample.latitude, FindMyAccuracy, recordedSend[d].sample.timestamp)

\* C38: the filter records the time of the acknowledgement, not the timestamp
\* of the sample; a device that keeps reporting the same sample with the same
\* timestamp is due again exactly when 600 s have passed since the
\* acknowledgement.
C38_AckTimeDrivesHeartbeat ==
  \A d \in DOMAIN recordedSend :
    /\ lastUploadedTimestamps[d] = recordedSend[d].at
    /\ lastUploadedLocations[d].timestamp = recordedSend[d].at
    /\ shouldUpload(lastUploadedLocations, lastUploadedTimestamps, d, UnchangedSample(d), time)
         <=> time - recordedSend[d].at >= heartbeatInterval

\* C38 witness: a sample with source timestamp 0 was acknowledged at time 5, and
\* at time 605 the same sample is due again.
C38_Witness ==
  \E d \in DOMAIN recordedSend :
    /\ recordedSend[d].sample.timestamp = 0
    /\ recordedSend[d].at = 5
    /\ time = 605
    /\ shouldUpload(lastUploadedLocations, lastUploadedTimestamps, d, UnchangedSample(d), time)

(***************************************************************************)
(* Claims about a fit with nothing to fit.                                 *)
(***************************************************************************)
\* C39: a render whose fit list is empty (no fitTargets, no locations) calls
\* neither setView nor fitBounds and leaves lastBoundsRef as it was, whether
\* the data or the fitKey triggered it.
C39_EmptyFitListDoesNothing ==
  [][Len(FitList(fitTargets', filteredLocations')) = 0
       => (mapActions' = mapActions /\ lastBoundsRef' = lastBoundsRef)]_vars

\* C39 witness: after a fit, the list became empty and a new fitKey was
\* consumed with no call made for it; the bounds of the fit are still recorded.
C39_Witness ==
  /\ filteredLocations = <<>> /\ fitTargets = <<>>
  /\ lastBoundsRef # <<>>
  /\ mapActions # <<>>
  /\ fitKey > 0 /\ lastFitKeyRef = <<fitKey>>
  /\ \A k \in 1..Len(mapActions) : mapActions[k].fitKey < fitKey

(***************************************************************************)
(* Claims about the polling timer.                                         *)
(***************************************************************************)
\* C40: whatever start, pair and updatePollingInterval calls were made, at
\* most one polling Timer is scheduled, and it is the one MainViewModel.timer
\* refers to.
C40_AtMostOneTimer ==
  /\ Cardinality(scheduledTimers) <= 1
  /\ \A t \in scheduledTimers : timer = <<t>>

\* C40 witness: polling was restarted by start, by pair and by a change of the
\* interval, and the one scheduled Timer is the last one created.
C40_Witness ==
  /\ timersCreated = MaxTimers
  /\ pollInterval # 10
  /\ scheduledTimers = {[id |-> MaxTimers, interval |-> pollInterval]}
====
